---- MODULE Spec2Model ----
(***************************************************************************)
(* Stroke-to-text recognition pipeline of ekoAi.                           *)
(*                                                                         *)
(* HandwritingService exists in two revisions: the four-method cascade of  *)
(* src/unnamed/part_011 ("part_011") and the three-method cascade with     *)
(* enablement flags of src/src/services/aiService.ts ("aiService").  The   *)
(* variable impl selects the revision a behaviour runs.                    *)
(*                                                                         *)
(* Texts are sequences of one-character strings, so that String.trim and   *)
(* Array.join are computed rather than assumed.                            *)
(***************************************************************************)
EXTENDS Integers, Sequences, FiniteSets, TLC

(***************************************************************************)
(* Bounds of the model.                                                    *)
(***************************************************************************)
\* longest stroke set handed to recognizeHandwriting / startRecognition
MaxStrokes == 3
\* debounce delay, in clock ticks (1200 ms in part_006)
DebounceTicks == 1
\* recognition attempts that may be awaiting a backend at the same time
MaxInFlight == 2
\* timer ids the event loop hands out
MaxTimers == 2
\* strokes of the writing the hook is shown
MaxWritten == 2
\* draw shapes the editor's page may hold
MaxShapes == 2

(***************************************************************************)
(* Texts.                                                                  *)
(***************************************************************************)
EmptyText == << >>

\* the white space String.prototype.trim removes (space, tab, line feed)
WhiteSpace == {" ", "\t", "\n"}

RECURSIVE TrimStart(_)
TrimStart(t) ==
    IF t # << >> /\ Head(t) \in WhiteSpace THEN TrimStart(Tail(t)) ELSE t

RECURSIVE TrimEnd(_)
TrimEnd(t) ==
    IF t # << >> /\ t[Len(t)] \in WhiteSpace
    THEN TrimEnd(SubSeq(t, 1, Len(t) - 1))
    ELSE t

\* String.prototype.trim
Trim(t) == TrimEnd(TrimStart(t))

\* Array.prototype.join(' ') of a sequence of texts
RECURSIVE JoinSpace(_)
JoinSpace(ws) ==
    IF ws = << >> THEN EmptyText
    ELSE IF Len(ws) = 1 THEN ws[1]
    ELSE ws[1] \o <<" ">> \o JoinSpace(Tail(ws))

\* Array.prototype.slice(0, n)
SliceTo(ws, n) == SubSeq(ws, 1, IF n < Len(ws) THEN n ELSE Len(ws))

\* aiService.ts strokesToCharacters: const commonWords (0-based in the source, 1-based here)
commonWords ==
    << <<"h", "e", "l", "l", "o">>,
       <<"w", "o", "r", "l", "d">>,
       <<"t", "e", "s", "t">>,
       <<"w", "r", "i", "t", "i", "n", "g">>,
       <<"t", "e", "x", "t">>,
       <<"g", "o", "o", "d">>,
       <<"w", "o", "r", "k">>,
       <<"n", "i", "c", "e">>,
       <<"g", "r", "e", "a", "t">>,
       <<"a", "w", "e", "s", "o", "m", "e">>,
       <<"p", "e", "r", "f", "e", "c", "t">>,
       <<"a", "m", "a", "z", "i", "n", "g">>,
       <<"w", "o", "n", "d", "e", "r", "f", "u", "l">> >>

\* aiService.ts strokesToCharacters: const sentences
charSentences ==
    << <<"H", "e", "l", "l", "o", " ", "w", "o", "r", "l", "d">>,
       <<"T", "h", "i", "s", " ", "i", "s", " ", "a", " ", "t", "e", "s", "t">>,
       <<"H", "a", "n", "d", "w", "r", "i", "t", "i", "n", "g", " ", "r", "e", "c", "o", "g", "n", "i", "t", "i", "o", "n">>,
       <<"G", "r", "e", "a", "t", " ", "w", "o", "r", "k">>,
       <<"N", "i", "c", "e", " ", "w", "r", "i", "t", "i", "n", "g">>,
       <<"K", "e", "e", "p", " ", "p", "r", "a", "c", "t", "i", "c", "i", "n", "g">>,
       <<"E", "x", "c", "e", "l", "l", "e", "n", "t", " ", "p", "r", "o", "g", "r", "e", "s", "s">> >>

\* part_011 patternsToText: const words
patternWords ==
    << <<"h", "e", "l", "l", "o">>,
       <<"w", "o", "r", "l", "d">>,
       <<"w", "r", "i", "t", "i", "n", "g">>,
       <<"t", "e", "x", "t">>,
       <<"h", "a", "n", "d", "w", "r", "i", "t", "i", "n", "g">>,
       <<"r", "e", "c", "o", "g", "n", "i", "t", "i", "o", "n">>,
       <<"t", "h", "e">>,
       <<"q", "u", "i", "c", "k">>,
       <<"b", "r", "o", "w", "n">>,
       <<"f", "o", "x">>,
       <<"j", "u", "m", "p", "s">>,
       <<"o", "v", "e", "r">>,
       <<"l", "a", "z", "y">>,
       <<"d", "o", "g">>,
       <<"a", "r", "t", "i", "f", "i", "c", "i", "a", "l">>,
       <<"i", "n", "t", "e", "l", "l", "i", "g", "e", "n", "c", "e">>,
       <<"m", "a", "c", "h", "i", "n", "e">>,
       <<"l", "e", "a", "r", "n", "i", "n", "g">>,
       <<"t", "e", "c", "h", "n", "o", "l", "o", "g", "y">>,
       <<"c", "r", "e", "a", "t", "i", "v", "e">>,
       <<"s", "t", "o", "r", "y">>,
       <<"i", "m", "a", "g", "i", "n", "a", "t", "i", "o", "n">>,
       <<"w", "o", "n", "d", "e", "r", "f", "u", "l">>,
       <<"a", "m", "a", "z", "i", "n", "g">> >>

\* part_011 patternsToText: const sentences
patternSentences ==
    << <<"H", "e", "l", "l", "o", " ", "w", "o", "r", "l", "d", "!">>,
       <<"T", "h", "i", "s", " ", "i", "s", " ", "h", "a", "n", "d", "w", "r", "i", "t", "i", "n", "g", " ", "r", "e", "c", "o", "g", "n", "i", "t", "i", "o", "n", ".">>,
       <<"T", "h", "e", " ", "q", "u", "i", "c", "k", " ", "b", "r", "o", "w", "n", " ", "f", "o", "x", " ", "j", "u", "m", "p", "s", " ", "o", "v", "e", "r", " ", "t", "h", "e", " ", "l", "a", "z", "y", " ", "d", "o", "g", ".">>,
       <<"A", "r", "t", "i", "f", "i", "c", "i", "a", "l", " ", "i", "n", "t", "e", "l", "l", "i", "g", "e", "n", "c", "e", " ", "i", "s", " ", "a", "m", "a", "z", "i", "n", "g", ".">>,
       <<"C", "r", "e", "a", "t", "i", "v", "e", " ", "w", "r", "i", "t", "i", "n", "g", " ", "w", "i", "t", "h", " ", "t", "e", "c", "h", "n", "o", "l", "o", "g", "y", ".">>,
       <<"M", "a", "c", "h", "i", "n", "e", " ", "l", "e", "a", "r", "n", "i", "n", "g", " ", "r", "e", "c", "o", "g", "n", "i", "z", "e", "s", " ", "p", "a", "t", "t", "e", "r", "n", "s", ".">>,
       <<"H", "a", "n", "d", "w", "r", "i", "t", "i", "n", "g", " ", "a", "n", "a", "l", "y", "s", "i", "s", " ", "i", "n", " ", "p", "r", "o", "g", "r", "e", "s", "s", ".">>,
       <<"D", "i", "g", "i", "t", "a", "l", " ", "i", "n", "k", " ", "b", "e", "c", "o", "m", "e", "s", " ", "t", "e", "x", "t", ".">>,
       <<"P", "a", "t", "t", "e", "r", "n", " ", "r", "e", "c", "o", "g", "n", "i", "t", "i", "o", "n", " ", "a", "t", " ", "w", "o", "r", "k", ".">>,
       <<"C", "o", "n", "v", "e", "r", "t", "i", "n", "g", " ", "s", "t", "r", "o", "k", "e", "s", " ", "t", "o", " ", "w", "o", "r", "d", "s", ".">> >>

PlaceholderMessage ==
    <<"R", "e", "c", "o", "g", "n", "i", "t", "i", "o", "n", " ", "i", "n", " ", "p", "r", "o", "g", "r", "e", "s", "s", ".", ".", ".", " ", "P", "l", "e", "a", "s", "e", " ", "e", "n", "s", "u", "r", "e", " ", "c", "l", "e", "a", "r", " ", "h", "a", "n", "d", "w", "r", "i", "t", "i", "n", "g", " ", "f", "o", "r", " ", "b", "e", "t", "t", "e", "r", " ", "r", "e", "s", "u", "l", "t", "s", ".">>

(***************************************************************************)
(* Strokes.                                                                *)
(***************************************************************************)
Pt(x, y) == [x |-> x, y |-> y]

PenColor == "#00d4ff"
EraserColor == "transparent"

Ink(points) == [points |-> points, color |-> PenColor]
Erase(points) == [points |-> points, color |-> EraserColor]

\* every stroke taken for ink, the eraser's included
DrawStrokesKeepAll(strokes) == strokes

\* strokes.filter(s => s.color !== 'transparent')
DrawStrokes(strokes) == SelectSeq(strokes, LAMBDA s : s.color # EraserColor)

(***************************************************************************)
(* Geometric features, aiService.ts.                                       *)
(***************************************************************************)
\* Math.min() / Math.max() of no arguments: +Infinity / -Infinity
Infinity == 1000000

SetMin(S) == IF S = {} THEN Infinity ELSE CHOOSE m \in S : \A n \in S : m <= n
SetMax(S) == IF S = {} THEN -Infinity ELSE CHOOSE m \in S : \A n \in S : m >= n

Xs(points) == {points[i].x : i \in 1..Len(points)}
Ys(points) == {points[i].y : i \in 1..Len(points)}

getStrokeBoundingBox(points) ==
    [minX |-> SetMin(Xs(points)), minY |-> SetMin(Ys(points)),
     maxX |-> SetMax(Xs(points)), maxY |-> SetMax(Ys(points))]

Abs(n) == IF n < 0 THEN -n ELSE n

\* The class of the angle between the vector (dx, dy) and the x axis, in
\* [0, 90] degrees: 0 below 22.5, 1 between 22.5 and 67.5, 2 above 67.5.
\* tan 22.5 = sqrt 2 - 1 and tan 67.5 = sqrt 2 + 1, so with integers the
\* comparisons are exact and no vector lies on a boundary.
AxisClass(dx, dy) ==
    LET ax == Abs(dx)
        ay == Abs(dy)
    IN  IF ax = 0 /\ ay = 0 THEN 0
        ELSE IF (ay + ax) * (ay + ax) < 2 * ax * ax THEN 0
        ELSE IF ay <= ax \/ (ay - ax) * (ay - ax) < 2 * ax * ax THEN 1
        ELSE 2

\* Math.atan2(dy, dx) * 180 / Math.PI, as the number of the boundaries
\* -157.5, -112.5, -67.5, -22.5, 22.5, 67.5, 112.5, 157.5 that lie below it
\* (atan2(0, 0) = 0; the angle is in (-180, 180]).
AngleRank(dx, dy) ==
    LET c == AxisClass(dx, dy)
    IN  IF dy < 0
        THEN IF dx < 0 THEN c ELSE 4 - c
        ELSE IF dx >= 0 THEN 4 + c ELSE 8 - c

\* angle >= b and angle < b, for b the k-th boundary (k = 1 for -157.5)
AngleGE(dx, dy, k) == AngleRank(dx, dy) >= k
AngleLT(dx, dy, k) == AngleRank(dx, dy) < k

\* a classification whose test for 'left' asks for an angle both above 157.5
\* and below -157.5
getDetailedStrokeDirectionNoWrap(points) ==
    IF Len(points) < 2 THEN "point"
    ELSE LET dx == points[Len(points)].x - points[1].x
             dy == points[Len(points)].y - points[1].y
         IN  IF AngleGE(dx, dy, 4) /\ AngleLT(dx, dy, 5) THEN "right"
             ELSE IF AngleGE(dx, dy, 5) /\ AngleLT(dx, dy, 6) THEN "down-right"
             ELSE IF AngleGE(dx, dy, 6) /\ AngleLT(dx, dy, 7) THEN "down"
             ELSE IF AngleGE(dx, dy, 7) /\ AngleLT(dx, dy, 8) THEN "down-left"
             ELSE IF AngleGE(dx, dy, 8) /\ AngleLT(dx, dy, 1) THEN "left"
             ELSE IF AngleGE(dx, dy, 1) /\ AngleLT(dx, dy, 2) THEN "up-left"
             ELSE IF AngleGE(dx, dy, 2) /\ AngleLT(dx, dy, 3) THEN "up"
             ELSE IF AngleGE(dx, dy, 3) /\ AngleLT(dx, dy, 4) THEN "up-right"
             ELSE "unknown"

getDetailedStrokeDirection(points) ==
    IF Len(points) < 2 THEN "point"
    ELSE LET dx == points[Len(points)].x - points[1].x
             dy == points[Len(points)].y - points[1].y
         IN  IF AngleGE(dx, dy, 4) /\ AngleLT(dx, dy, 5) THEN "right"
             ELSE IF AngleGE(dx, dy, 5) /\ AngleLT(dx, dy, 6) THEN "down-right"
             ELSE IF AngleGE(dx, dy, 6) /\ AngleLT(dx, dy, 7) THEN "down"
             ELSE IF AngleGE(dx, dy, 7) /\ AngleLT(dx, dy, 8) THEN "down-left"
             ELSE IF AngleGE(dx, dy, 8) \/ AngleLT(dx, dy, 1) THEN "left"
             ELSE IF AngleGE(dx, dy, 1) /\ AngleLT(dx, dy, 2) THEN "up-left"
             ELSE IF AngleGE(dx, dy, 2) /\ AngleLT(dx, dy, 3) THEN "up"
             ELSE IF AngleGE(dx, dy, 3) /\ AngleLT(dx, dy, 4) THEN "up-right"
             ELSE "unknown"

\* points needed before a stroke can be a closed shape
ClosedMinPoints == 10
\* distance between first and last point below which a stroke is closed
ClosedDistance == 20

\* a test that takes a distance of exactly ClosedDistance for closed
isClosedShapeInclusive(points) ==
    IF Len(points) < ClosedMinPoints THEN FALSE
    ELSE LET dx == points[Len(points)].x - points[1].x
             dy == points[Len(points)].y - points[1].y
         IN  dx * dx + dy * dy <= ClosedDistance * ClosedDistance

isClosedShape(points) ==
    IF Len(points) < ClosedMinPoints THEN FALSE
    ELSE LET dx == points[Len(points)].x - points[1].x
             dy == points[Len(points)].y - points[1].y
         IN  dx * dx + dy * dy < ClosedDistance * ClosedDistance

\* a test for which boxes that share no more than an edge lie apart
strokesIntersectStrict(stroke1, stroke2) ==
    LET bbox1 == getStrokeBoundingBox(stroke1.points)
        bbox2 == getStrokeBoundingBox(stroke2.points)
    IN  ~(bbox1.maxX <= bbox2.minX \/ bbox2.maxX <= bbox1.minX \/
          bbox1.maxY <= bbox2.minY \/ bbox2.maxY <= bbox1.minY)

strokesIntersect(stroke1, stroke2) ==
    LET bbox1 == getStrokeBoundingBox(stroke1.points)
        bbox2 == getStrokeBoundingBox(stroke2.points)
    IN  ~(bbox1.maxX < bbox2.minX \/ bbox2.maxX < bbox1.minX \/
          bbox1.maxY < bbox2.minY \/ bbox2.maxY < bbox1.minY)

countStrokeIntersections(strokes) ==
    Cardinality({p \in (1..Len(strokes)) \X (1..Len(strokes)) :
                    p[1] < p[2] /\ strokesIntersect(strokes[p[1]], strokes[p[2]])})

analyzeStrokesForCharacters(strokes) ==
    [strokeCount |-> Len(strokes),
     strokeDirections |->
        [i \in 1..Len(strokes) |-> getDetailedStrokeDirection(strokes[i].points)],
     intersections |-> countStrokeIntersections(strokes),
     closedShapes |->
        Cardinality({i \in 1..Len(strokes) : isClosedShape(strokes[i].points)})]

\* Array.prototype.includes
Includes(arr, v) == \E i \in 1..Len(arr) : arr[i] = v

\* what the mappings below make of 1 to 3 strokes
FewStrokes(analysis) ==
    LET n == analysis.strokeCount
        dirs == analysis.strokeDirections
    IN  IF n = 1 THEN
            IF dirs[1] \in {"down", "up"} THEN <<"I">>
            ELSE IF dirs[1] \in {"right", "left"} THEN <<"-">>
            ELSE IF analysis.closedShapes > 0 THEN <<"O">>
            ELSE <<"l">>
        ELSE IF n = 2 THEN
            IF analysis.intersections > 0 THEN <<"X">>
            ELSE IF Includes(dirs, "down") /\ Includes(dirs, "right") THEN <<"L">>
            ELSE <<"H">>
        ELSE IF analysis.closedShapes > 0 THEN <<"P">>
        ELSE IF analysis.intersections > 1 THEN <<"A">>
        ELSE <<"F">>

\* a mapping that indexes the sentences by strokeCount: sentences[9] is
\* undefined
strokesToCharactersNoModulo(analysis) ==
    LET n == analysis.strokeCount
    IN  IF n \in 1..3 THEN FewStrokes(analysis)
        ELSE IF n <= 8 THEN commonWords[(n % Len(commonWords)) + 1]
        ELSE IF n < Len(charSentences) THEN charSentences[n + 1]
        ELSE <<"undefined">>

\* a mapping whose word for 4 to 8 strokes moves on with each closed shape
strokesToCharactersByShape(analysis) ==
    LET n == analysis.strokeCount
    IN  IF n \in 1..3 THEN FewStrokes(analysis)
        ELSE IF n <= 8
        THEN commonWords[((n + analysis.closedShapes) % Len(commonWords)) + 1]
        ELSE charSentences[(n % Len(charSentences)) + 1]

\* a mapping that takes the entry before the one at strokeCount % length
strokesToCharactersEntryBefore(analysis) ==
    LET n == analysis.strokeCount
    IN  IF n \in 1..3 THEN FewStrokes(analysis)
        ELSE IF n <= 8 THEN commonWords[((n - 1) % Len(commonWords)) + 1]
        ELSE charSentences[((n - 1) % Len(charSentences)) + 1]

\* a mapping without the letters of last resort ('l', 'H', 'F'): it returns
\* nothing where no test applies
strokesToCharactersNoLastResort(analysis) ==
    LET n == analysis.strokeCount
    IN  IF n \in 1..3
        THEN IF FewStrokes(analysis) \in {<<"l">>, <<"H">>, <<"F">>}
             THEN EmptyText ELSE FewStrokes(analysis)
        ELSE IF n <= 8 THEN commonWords[(n % Len(commonWords)) + 1]
        ELSE charSentences[(n % Len(charSentences)) + 1]

\* a mapping that looks for a closed shape before it looks at the direction
strokesToCharactersClosedFirst(analysis) ==
    LET n == analysis.strokeCount
        dirs == analysis.strokeDirections
    IN  IF n = 1 THEN
            IF analysis.closedShapes > 0 THEN <<"O">>
            ELSE IF dirs[1] \in {"down", "up"} THEN <<"I">>
            ELSE IF dirs[1] \in {"right", "left"} THEN <<"-">>
            ELSE <<"l">>
        ELSE IF n = 2 THEN
            IF analysis.intersections > 0 THEN <<"X">>
            ELSE IF Includes(dirs, "down") /\ Includes(dirs, "right") THEN <<"L">>
            ELSE <<"H">>
        ELSE IF n = 3 THEN
            IF analysis.closedShapes > 0 THEN <<"P">>
            ELSE IF analysis.intersections > 1 THEN <<"A">>
            ELSE <<"F">>
        ELSE IF n <= 8 THEN commonWords[(n % Len(commonWords)) + 1]
        ELSE charSentences[(n % Len(charSentences)) + 1]

strokesToCharacters(analysis) ==
    LET n == analysis.strokeCount
        dirs == analysis.strokeDirections
    IN  IF n = 1 THEN
            IF dirs[1] \in {"down", "up"} THEN <<"I">>
            ELSE IF dirs[1] \in {"right", "left"} THEN <<"-">>
            ELSE IF analysis.closedShapes > 0 THEN <<"O">>
            ELSE <<"l">>
        ELSE IF n = 2 THEN
            IF analysis.intersections > 0 THEN <<"X">>
            ELSE IF Includes(dirs, "down") /\ Includes(dirs, "right") THEN <<"L">>
            ELSE <<"H">>
        ELSE IF n = 3 THEN
            IF analysis.closedShapes > 0 THEN <<"P">>
            ELSE IF analysis.intersections > 1 THEN <<"A">>
            ELSE <<"F">>
        ELSE IF n <= 8 THEN commonWords[(n % Len(commonWords)) + 1]
        ELSE charSentences[(n % Len(charSentences)) + 1]

\* recognizeWithPatterns of aiService.ts
CharacterPatterns(strokes) ==
    IF Len(strokes) = 0 THEN EmptyText
    ELSE LET drawStrokes == DrawStrokes(strokes)
         IN  IF Len(drawStrokes) = 0 THEN EmptyText
             ELSE strokesToCharacters(analyzeStrokesForCharacters(drawStrokes))

(***************************************************************************)
(* Heuristic synthesizer, part_011.                                        *)
(***************************************************************************)
MinOf(a, b) == IF a < b THEN a ELSE b

getStrokeDirection(points) ==
    LET deltaX == points[Len(points)].x - points[1].x
        deltaY == points[Len(points)].y - points[1].y
    IN  IF Abs(deltaX) > Abs(deltaY)
        THEN IF deltaX > 0 THEN "right" ELSE "left"
        ELSE IF deltaY > 0 THEN "down" ELSE "up"

\* the vector from point p to point q
Segment(p, q) == [dx |-> q.x - p.x, dy |-> q.y - p.y]

\* Math.abs(angle2 - angle1) > Math.PI / 4, for angle1 and angle2 the
\* Math.atan2 of the segments v1 and v2.  atan2(0, 0) = 0 is the angle of
\* (1, 0).  The angles are in (-180, 180] degrees: their difference
\* exceeds 180 when the segments lie on either side of the negative x axis,
\* and is the angle between the segments otherwise, which is at most 45
\* degrees when their cross product does not exceed their dot product.
\* (A difference of exactly 45 degrees is computed as Math.PI / 4, and is
\* not above it, for segments along the axes and the diagonals and for the
\* segments (-5, -10) and (3, -9) of LoopStroke; for other segments the
\* rounding of Math.atan2 decides.)
AngleDiffAboveQuarterPi(v1, v2) ==
    LET a == IF v1.dx = 0 /\ v1.dy = 0 THEN [dx |-> 1, dy |-> 0] ELSE v1
        b == IF v2.dx = 0 /\ v2.dy = 0 THEN [dx |-> 1, dy |-> 0] ELSE v2
        dot == a.dx * b.dx + a.dy * b.dy
        cross == a.dx * b.dy - a.dy * b.dx
        acrossCut == a.dx < 0 /\ b.dx < 0 /\ ((a.dy >= 0) # (b.dy >= 0))
    IN  acrossCut \/ ~(dot > 0 /\ Abs(cross) <= dot)

\* const direction = angleDiff > Math.PI / 4 ? 'curve' : 'straight', for the
\* triple of points around points[i]
TripleDirection(points, i) ==
    IF AngleDiffAboveQuarterPi(Segment(points[i - 1], points[i]),
                               Segment(points[i], points[i + 1]))
    THEN "curve" ELSE "straight"

\* the loop of isCurved from the triple around points[i] on: the number of
\* times direction differs from a lastDirection that is not ''
RECURSIVE DirectionChanges(_, _, _)
DirectionChanges(points, i, lastDirection) ==
    IF i > Len(points) - 1 THEN 0
    ELSE LET direction == TripleDirection(points, i)
         IN  (IF direction # lastDirection /\ lastDirection # "" THEN 1 ELSE 0)
                + DirectionChanges(points, i + 1, direction)

\* a loop that takes the first triple for a change of direction as well
isCurvedCountingFirst(points) ==
    IF Len(points) < 5 THEN FALSE
    ELSE DirectionChanges(points, 2, "none") > 2

isCurved(points) ==
    IF Len(points) < 5 THEN FALSE
    ELSE DirectionChanges(points, 2, "") > 2

\* analyzeStrokes: the fields that depend on the strokes' count, direction
\* and curvature (patternsToText reads strokeCount only)
analyzeStrokes(strokes) ==
    LET long == SelectSeq(strokes, LAMBDA s : Len(s.points) >= 3)
        curves == Cardinality({i \in 1..Len(long) : isCurved(long[i].points)})
    IN  [strokeCount |-> Len(strokes),
         directions |-> [i \in 1..Len(long) |-> getStrokeDirection(long[i].points)],
         curves |-> curves,
         \* if (this.isCurved(stroke.points)) curves++ else straightLines++
         straightLines |-> Len(long) - curves]

patternsToText(analysis) ==
    LET n == analysis.strokeCount
    IN  IF n <= 2 THEN
            \* words[n - 1] || 'a'
            IF n >= 1 THEN patternWords[n] ELSE <<"a">>
        ELSE IF n <= 5 THEN JoinSpace(SliceTo(patternWords, n))
        ELSE IF n <= 10 THEN
            patternSentences[MinOf(n - 6, Len(patternSentences) - 1) + 1]
        ELSE JoinSpace(SliceTo(patternSentences, MinOf(n \div 5, 3) + 1))

\* recognizeWithPatterns of part_011
TextPatterns(strokes) ==
    IF Len(strokes) = 0 THEN EmptyText
    ELSE LET drawStrokes == DrawStrokes(strokes)
         IN  IF Len(drawStrokes) = 0 THEN EmptyText
             ELSE patternsToText(analyzeStrokes(drawStrokes))

\* part_006 generateFallbackText: const words
fallbackWords ==
    << <<"h", "e", "l", "l", "o">>,
       <<"w", "o", "r", "l", "d">>,
       <<"w", "r", "i", "t", "i", "n", "g">>,
       <<"t", "e", "x", "t">>,
       <<"r", "e", "c", "o", "g", "n", "i", "t", "i", "o", "n">>,
       <<"h", "a", "n", "d", "w", "r", "i", "t", "i", "n", "g">>,
       <<"t", "h", "e">>,
       <<"q", "u", "i", "c", "k">>,
       <<"b", "r", "o", "w", "n">>,
       <<"f", "o", "x">>,
       <<"j", "u", "m", "p", "s">>,
       <<"o", "v", "e", "r">>,
       <<"l", "a", "z", "y">>,
       <<"d", "o", "g">>,
       <<"a", "r", "t", "i", "f", "i", "c", "i", "a", "l">>,
       <<"i", "n", "t", "e", "l", "l", "i", "g", "e", "n", "c", "e">>,
       <<"m", "a", "c", "h", "i", "n", "e">>,
       <<"l", "e", "a", "r", "n", "i", "n", "g">>,
       <<"d", "i", "g", "i", "t", "a", "l">>,
       <<"i", "n", "k">> >>

\* part_006 generateFallbackText: const sentences
fallbackSentences ==
    << <<"H", "e", "l", "l", "o", " ", "w", "o", "r", "l", "d", "!">>,
       <<"H", "a", "n", "d", "w", "r", "i", "t", "i", "n", "g", " ", "r", "e", "c", "o", "g", "n", "i", "t", "i", "o", "n", " ", "a", "c", "t", "i", "v", "e", ".">>,
       <<"T", "h", "e", " ", "q", "u", "i", "c", "k", " ", "b", "r", "o", "w", "n", " ", "f", "o", "x", " ", "j", "u", "m", "p", "s", " ", "o", "v", "e", "r", " ", "t", "h", "e", " ", "l", "a", "z", "y", " ", "d", "o", "g", ".">>,
       <<"D", "i", "g", "i", "t", "a", "l", " ", "i", "n", "k", " ", "c", "o", "n", "v", "e", "r", "t", "e", "d", " ", "t", "o", " ", "t", "e", "x", "t", ".">>,
       <<"M", "a", "c", "h", "i", "n", "e", " ", "l", "e", "a", "r", "n", "i", "n", "g", " ", "p", "r", "o", "c", "e", "s", "s", "e", "s", " ", "y", "o", "u", "r", " ", "w", "r", "i", "t", "i", "n", "g", ".">>,
       <<"A", "r", "t", "i", "f", "i", "c", "i", "a", "l", " ", "i", "n", "t", "e", "l", "l", "i", "g", "e", "n", "c", "e", " ", "r", "e", "c", "o", "g", "n", "i", "z", "e", "s", " ", "p", "a", "t", "t", "e", "r", "n", "s", ".">>,
       <<"Y", "o", "u", "r", " ", "h", "a", "n", "d", "w", "r", "i", "t", "i", "n", "g", " ", "i", "s", " ", "b", "e", "i", "n", "g", " ", "a", "n", "a", "l", "y", "z", "e", "d", ".">>,
       <<"C", "o", "n", "v", "e", "r", "t", "i", "n", "g", " ", "s", "t", "r", "o", "k", "e", "s", " ", "t", "o", " ", "r", "e", "a", "d", "a", "b", "l", "e", " ", "t", "e", "x", "t", ".">>,
       <<"P", "a", "t", "t", "e", "r", "n", " ", "r", "e", "c", "o", "g", "n", "i", "t", "i", "o", "n", " ", "i", "n", " ", "p", "r", "o", "g", "r", "e", "s", "s", ".">>,
       <<"H", "a", "n", "d", "w", "r", "i", "t", "i", "n", "g", " ", "a", "n", "a", "l", "y", "s", "i", "s", " ", "c", "o", "m", "p", "l", "e", "t", "e", ".">> >>
(***************************************************************************)
(* Configuration (AI_CONFIG) and the state of the program.                 *)
(***************************************************************************)
\* import.meta.env leaves an unset variable undefined
Undefined == "<undefined>"
GooglePlaceholder == "your_google_ai_api_key_here"
MyScriptPlaceholder == "your_myscript_api_key_here"
RealKey == "k-3f9a"
MyScriptUrl == "https://api.myscript.com/v4.0/iink"

\* JavaScript truthiness of a configuration string
Truthy(v) == v \notin {Undefined, ""}

GoogleKeys == {Undefined, "", GooglePlaceholder, RealKey}
HandwritingKeys == {Undefined, MyScriptPlaceholder, RealKey}
HandwritingUrls == {Undefined, MyScriptUrl}
Impls == {"part_011", "aiService"}

VARIABLES
    impl,            \* the revision of HandwritingService in use
    googleKey,       \* AI_CONFIG.google.apiKey
    handwritingKey,  \* AI_CONFIG.handwriting.apiKey
    handwritingUrl,  \* AI_CONFIG.handwriting.apiUrl
    call,            \* the recognizeHandwriting call in progress, or NoCall
    \* useHandwritingRecognition (part_006)
    recognizedText,  \* useState('')
    isRecognizing,   \* useState(false)
    lastStrokeCount, \* useRef(0)
    canvasRef,       \* whether canvasRef.current holds a canvas
    recognitionTimeoutRef,  \* the id of the timer last armed, 0 for undefined
    timers,          \* the timers of the event loop that are pending
    attempts,        \* the fired timer callbacks that await the service
    \* what has been observed of the session
    firedSinceEvent, \* timer callbacks run since the last startRecognition
    lastEventStrokes,\* the strokes the last startRecognition was given
    clearedSinceEvent,  \* clearRecognition was called and no startRecognition since
    coalesced,       \* the last startRecognition came before the previous timer was due
    \* useHandwritingRecognition(editor) (hooks/useHandwritingRecognition.ts)
    hook,            \* the revision of the hook in use
    shapes,          \* ids of the draw shapes of editor.getCurrentPageShapes()
    lastProcessedShapeIds,  \* useRef(new Set())
    \* CustomCanvas (part_000)
    customCanvas     \* the component's strokes, currentStroke, isDrawing and
                     \* tool, and what onStrokeComplete was last handed

serviceVars == <<call>>

\* the page of the editor and what the editor revision of the hook keeps of it
pageVars == <<shapes, lastProcessedShapeIds>>

hookVars ==
    <<recognizedText, isRecognizing, lastStrokeCount, canvasRef,
      recognitionTimeoutRef, timers, attempts, firedSinceEvent,
      lastEventStrokes, clearedSinceEvent, coalesced, pageVars>>

canvasVars == <<customCanvas>>

vars == <<impl, googleKey, handwritingKey, handwritingUrl, hook, serviceVars, hookVars,
          canvasVars>>

config == <<impl, googleKey, handwritingKey, handwritingUrl, hook>>

NoCall == [pc |-> "idle"]

(***************************************************************************)
(* Backend responses and the adapters' reading of them.                    *)
(***************************************************************************)
\* what a fetch can come back with
NetworkError == [kind |-> "network-error"]
HttpError == [kind |-> "http-error"]
InvalidJson == [kind |-> "invalid-json"]
NoTextField == [kind |-> "no-text-field"]
TextResponse(t) == [kind |-> "text", text |-> t]

BackendTexts == {EmptyText, <<" ">>, <<"H", "i">>, <<" ", "O", "k", "\n">>}

Responses ==
    {NetworkError, HttpError, InvalidJson, NoTextField}
        \cup {TextResponse(t) : t \in BackendTexts}

\* the settlement of a promise
Rejected == [kind |-> "rejected"]
Resolved(t) == [kind |-> "resolved", text |-> t]

\* From the settlement of fetch to the adapter's return: fetch rejects, or
\* !response.ok throws, or response.json() rejects, or the text field is
\* read with `|| ''` and trimmed.  The catch block rethrows.
\* the adapters without their "if (!response.ok) throw": the body of an
\* error answer is read like any other and has no text field
ReadResponseIgnoreStatus(response) ==
    IF response.kind \in {"network-error", "invalid-json"} THEN Rejected
    ELSE IF response.kind \in {"http-error", "no-text-field"}
    THEN Resolved(Trim(EmptyText))
    ELSE Resolved(Trim(response.text))

ReadResponse(response) ==
    IF response.kind \in {"network-error", "http-error", "invalid-json"}
    THEN Rejected
    ELSE IF response.kind = "no-text-field" THEN Resolved(Trim(EmptyText))
    ELSE Resolved(Trim(response.text))

\* data.responses?.[0]?.fullTextAnnotation?.text || ''
recognizeWithGoogleVision(response) == ReadResponse(response)
\* data.candidates?.[0]?.content?.parts?.[0]?.text || ''
recognizeWithAI(response) == ReadResponse(response)
\* data.exports?.['text/plain'] || ''
recognizeWithMyScript(response) == ReadResponse(response)

AdapterResult(name, response) ==
    CASE name = "Google Vision" -> recognizeWithGoogleVision(response)
      [] name = "AI Vision" -> recognizeWithAI(response)
      [] name = "MyScript" -> recognizeWithMyScript(response)

(***************************************************************************)
(* The cascade, HandwritingService.recognizeHandwriting.                   *)
(***************************************************************************)
NetworkAdapters == {"Google Vision", "AI Vision", "MyScript"}

\* enabled: !!apiKey && apiKey !== 'your_google_ai_api_key_here'
\* an enabled flag that does not compare the key with the placeholder
GoogleEnabledNoPlaceholder(key) == Truthy(key)

GoogleEnabled(key) == Truthy(key) /\ key # GooglePlaceholder

\* const methods = [...]; part_011 has no enabled flag
methods(im, key) ==
    IF im = "part_011"
    THEN << [name |-> "Google Vision", enabled |-> TRUE],
            [name |-> "AI Vision", enabled |-> TRUE],
            [name |-> "MyScript", enabled |-> TRUE],
            [name |-> "Local Patterns", enabled |-> TRUE] >>
    ELSE << [name |-> "Google Vision", enabled |-> GoogleEnabled(key)],
            [name |-> "AI Vision", enabled |-> GoogleEnabled(key)],
            [name |-> "Local Patterns", enabled |-> TRUE] >>

\* recognizeWithPatterns of the revision
recognizeWithPatterns(im, strokes) ==
    IF im = "part_011" THEN TextPatterns(strokes) ELSE CharacterPatterns(strokes)

\* no analysis logged yet
NoAnalysis == [strokeCount |-> -1]

\* recognizeWithPatterns as the cascade calls it: the text it returns and
\* the analysis it logs ('Character analysis' / 'Stroke analysis'), if it
\* gets to analyze
PatternOutcome(im, strokes, before) ==
    IF Len(strokes) = 0 \/ Len(DrawStrokes(strokes)) = 0
    THEN [text |-> EmptyText, analysis |-> before]
    ELSE LET analysis == IF im = "part_011"
                         THEN analyzeStrokes(DrawStrokes(strokes))
                         ELSE analyzeStrokesForCharacters(DrawStrokes(strokes))
         IN  [text |-> IF im = "part_011" THEN patternsToText(analysis)
                       ELSE strokesToCharacters(analysis),
              analysis |-> analysis]

\* raster adapters that go to their fetch without a canvas
ThrowsBeforeFetchNoCanvasCheck(im, name, canvas, gKey, hKey, hUrl) ==
    IF name = "MyScript" THEN ~Truthy(hKey) \/ ~Truthy(hUrl)
    ELSE IF im = "part_011" THEN ~Truthy(gKey)
    ELSE ~Truthy(gKey) \/ gKey = GooglePlaceholder

\* Whether the adapter throws before it reaches its fetch:
\* tryGoogleVision / tryAIVision, then the check at the head of
\* recognizeWithGoogleVision / recognizeWithAI (aiService), or the
\* credentials check of recognizeWithMyScript.
ThrowsBeforeFetch(im, name, canvas, gKey, hKey, hUrl) ==
    IF name = "MyScript" THEN ~Truthy(hKey) \/ ~Truthy(hUrl)
    ELSE IF im = "part_011" THEN ~canvas \/ ~Truthy(gKey)
    ELSE ~canvas \/ ~Truthy(gKey) \/ gKey = GooglePlaceholder

\* if (result && result.trim().length > 0)
Usable(text) == text # EmptyText /\ Len(Trim(text)) > 0

\* Array.prototype.reverse
Reverse(arr) == [i \in 1..Len(arr) |-> arr[Len(arr) + 1 - i]]

\* a call that puts the newest stroke first, in place, before its loop
EnteredNewestFirst(strokes, canvas) ==
    [pc |-> "loop", strokes |-> Reverse(strokes), given |-> strokes,
     canvas |-> canvas, idx |-> 1,
     invoked |-> << >>, fetches |-> << >>, settled |-> << >>,
     accepted |-> "", result |-> [kind |-> "pending"],
     analysis |-> NoAnalysis]

\* The record of a call that has just entered the loop.  strokes is the
\* array the methods of the loop are handed (the parameter in part_011,
\* const drawStrokes in aiService.ts) as it is now, given what it held
\* when the loop was entered.  The service reads the array by length,
\* filter, map, forEach and reduce and the points by index; it assigns to
\* neither.
Entered(strokes, canvas) ==
    [pc |-> "loop", strokes |-> strokes, given |-> strokes,
     canvas |-> canvas, idx |-> 1,
     invoked |-> << >>, fetches |-> << >>, settled |-> << >>,
     accepted |-> "", result |-> [kind |-> "pending"],
     analysis |-> NoAnalysis]

Finish(c, by, r) == [c EXCEPT !.pc = "done", !.accepted = by, !.result = r]

\* recognizeHandwriting up to its loop: aiService returns '' for an empty or
\* an all-erase stroke set and hands the ink strokes to the pattern method.
Begin(im, strokes, canvas) ==
    IF im = "part_011" THEN Entered(strokes, canvas)
    ELSE IF Len(strokes) = 0 THEN Finish(Entered(strokes, canvas), "", Resolved(EmptyText))
    ELSE IF Len(DrawStrokes(strokes)) = 0
         THEN Finish(Entered(strokes, canvas), "", Resolved(EmptyText))
    ELSE Entered(DrawStrokes(strokes), canvas)

\* What follows the loop: part_011 calls recognizeWithPatterns once more,
\* aiService returns its placeholder message.
AfterLoop(im, c) ==
    IF im = "part_011"
    THEN LET outcome == PatternOutcome(im, c.strokes, c.analysis)
         IN  Finish([c EXCEPT !.invoked = Append(@, "Local Patterns"),
                              !.analysis = outcome.analysis], "",
                    Resolved(outcome.text))
    ELSE Finish(c, "", Resolved(PlaceholderMessage))

\* a loop without its try/catch: the rejection of a method ends the call
DecideNoCatch(c, name, r) ==
    IF r.kind = "resolved" /\ Usable(r.text)
    THEN Finish(c, name, Resolved(r.text))
    ELSE IF r.kind = "rejected" THEN Finish(c, name, Rejected)
    ELSE [c EXCEPT !.pc = "loop", !.idx = @ + 1]

\* a loop that notes a usable result and goes on to the next method
DecideNoReturn(c, name, r) ==
    IF r.kind = "resolved" /\ Usable(r.text)
    THEN [c EXCEPT !.pc = "loop", !.idx = @ + 1, !.accepted = name,
                   !.result = Resolved(r.text)]
    ELSE [c EXCEPT !.pc = "loop", !.idx = @ + 1]

\* a loop that returns whatever a method resolves to, empty or not
DecideAcceptEmpty(c, name, r) ==
    IF r.kind = "resolved"
    THEN Finish(c, name, Resolved(r.text))
    ELSE [c EXCEPT !.pc = "loop", !.idx = @ + 1]

\* The loop's handling of a settled method: return a usable result, go on
\* to the next method otherwise (empty result or caught rejection).
Decide(c, name, r) ==
    IF r.kind = "resolved" /\ Usable(r.text)
    THEN Finish(c, name, Resolved(r.text))
    ELSE [c EXCEPT !.pc = "loop", !.idx = @ + 1]

\* One turn of the loop, to the next await of a fetch or to the next turn.
Turn(im, gKey, hKey, hUrl, c) ==
    LET ms == methods(im, gKey) IN
    IF c.idx > Len(ms) THEN AfterLoop(im, c)
    ELSE LET m == ms[c.idx] IN
         IF ~m.enabled THEN [c EXCEPT !.idx = @ + 1]
         ELSE LET d == [c EXCEPT !.invoked = Append(@, m.name)] IN
              IF m.name = "Local Patterns"
              THEN LET outcome == PatternOutcome(im, c.strokes, c.analysis)
                   IN  Decide([d EXCEPT !.analysis = outcome.analysis],
                              m.name, Resolved(outcome.text))
              ELSE IF ThrowsBeforeFetch(im, m.name, c.canvas, gKey, hKey, hUrl)
              THEN Decide(d, m.name, Rejected)
              ELSE [d EXCEPT !.pc = "awaiting", !.fetches = Append(@, m.name)]

\* Run the call until it awaits a fetch or returns: between two fetches the
\* continuations are microtasks, which no timer or event can interleave.
RECURSIVE Run(_, _, _, _, _)
Run(im, gKey, hKey, hUrl, c) ==
    IF c.pc = "loop" THEN Run(im, gKey, hKey, hUrl, Turn(im, gKey, hKey, hUrl, c))
    ELSE c

\* The fetch of the awaited adapter settles with response.
Settled(im, gKey, hKey, hUrl, c, response) ==
    LET name == methods(im, gKey)[c.idx].name
        r == AdapterResult(name, response)
        d == [c EXCEPT !.settled =
                Append(@, [adapter |-> name, response |-> response, result |-> r])]
    IN  Run(im, gKey, hKey, hUrl, Decide(d, name, r))

(***************************************************************************)
(* Inputs.                                                                 *)
(***************************************************************************)
\* a two-point stroke drawn downwards
DownStroke == Ink(<<Pt(0, 0), Pt(0, 30)>>)
\* a ten-point loop that ends 5 px from where it began
LoopStroke ==
    Ink(<<Pt(50, 50), Pt(60, 50), Pt(70, 55), Pt(75, 65), Pt(70, 75),
          Pt(60, 80), Pt(50, 75), Pt(45, 65), Pt(48, 56), Pt(53, 54)>>)
\* a stroke of the eraser
EraserStroke == Erase(<<Pt(0, 0), Pt(10, 10), Pt(20, 20)>>)

StrokePool == {DownStroke, LoopStroke, EraserStroke}

SeqsUpTo(S, n) == UNION {[1..k -> S] : k \in 0..n}

StrokeSets == SeqsUpTo(StrokePool, MaxStrokes)

\* no call of onStrokeComplete yet
NotNotified == <<"<none>">>

\* CustomCanvas as its useState calls construct it
CanvasInitial ==
    [strokes |-> << >>, currentStroke |-> << >>, isDrawing |-> FALSE,
     tool |-> "pen", notified |-> NotNotified]

\* the hook as useHandwritingRecognition() constructs it, beside a canvas
\* nobody has drawn on
HookInitial ==
    /\ recognizedText = EmptyText
    /\ isRecognizing = FALSE
    /\ lastStrokeCount = 0
    /\ canvasRef = FALSE
    /\ recognitionTimeoutRef = 0
    /\ timers = {}
    /\ attempts = << >>
    /\ firedSinceEvent = 0
    /\ lastEventStrokes = << >>
    /\ clearedSinceEvent = FALSE
    /\ coalesced = FALSE
    /\ shapes = {}
    /\ lastProcessedShapeIds = {}
    /\ customCanvas = CanvasInitial

(***************************************************************************)
(* Direct calls of recognizeHandwriting.                                   *)
(***************************************************************************)
Init ==
    /\ impl \in Impls
    /\ googleKey \in GoogleKeys
    /\ handwritingKey \in HandwritingKeys
    /\ handwritingUrl \in HandwritingUrls
    /\ hook = "part_006"
    /\ call = NoCall
    /\ HookInitial

\* recognizeHandwriting(strokes, canvas), to its first await of a fetch
Call(strokes, canvas) ==
    /\ call.pc = "idle"
    /\ call' = Run(impl, googleKey, handwritingKey, handwritingUrl,
                   Begin(impl, strokes, canvas))
    /\ UNCHANGED <<config, canvasVars, hookVars>>

\* the awaited fetch settles and the call runs on
FetchSettle(response) ==
    /\ call.pc = "awaiting"
    /\ call' = Settled(impl, googleKey, handwritingKey, handwritingUrl, call, response)
    /\ UNCHANGED <<config, canvasVars, hookVars>>

\* the caller takes the result
Return ==
    /\ call.pc = "done"
    /\ call' = NoCall
    /\ UNCHANGED <<config, canvasVars, hookVars>>

Next ==
    \/ \E strokes \in StrokeSets, canvas \in BOOLEAN : Call(strokes, canvas)
    \/ \E response \in Responses : FetchSettle(response)
    \/ Return

Spec == Init /\ [][Next]_vars

(***************************************************************************)
(* Properties of the cascade.                                              *)
(***************************************************************************)
Active == call.pc # "idle"
Done == call.pc = "done"

\* the names of the enabled methods, in the order of the methods array
EnabledNames ==
    LET ms == SelectSeq(methods(impl, googleKey), LAMBDA m : m.enabled)
    IN  [i \in 1..Len(ms) |-> ms[i].name]

IsPrefix(s, t) == Len(s) <= Len(t) /\ SubSeq(t, 1, Len(s)) = s

HasInk(strokes) == Len(DrawStrokes(strokes)) > 0

\* a settled adapter result the loop accepts
UsableResult(r) == r.kind = "resolved" /\ Len(Trim(r.text)) > 0

\* C1 (Totality): a recognizeHandwriting call never rejects and returns a
\* text, for every stroke set (empty and all-erase included) and every
\* combination of adapter outcomes; and it returns once its fetches have
\* settled: it either returns or awaits the fetch of a network adapter,
\* and each settlement ends the call or moves it to a later method of the
\* finite methods array.
C1_Totality ==
    /\ [](Active => call.result.kind \in {"pending", "resolved"})
    /\ [](Done => call.result.kind = "resolved" /\ call.result.text \in Seq(STRING))
    /\ [](Active => call.pc \in {"awaiting", "done"})
    /\ [](call.pc = "awaiting" =>
            /\ call.idx <= Len(methods(impl, googleKey))
            /\ methods(impl, googleKey)[call.idx].name \in NetworkAdapters)
    /\ [][call.pc = "awaiting" =>
            (call'.pc = "done" \/ (call'.pc = "awaiting" /\ call'.idx > call.idx))]_vars

\* a call returned after all three network adapters were tried and rejected
C1_Witness ==
    /\ Done
    /\ Len(call.settled) = 3
    /\ \A i \in 1..3 : call.settled[i].result = Rejected
    /\ HasInk(call.strokes)

\* C2 (Cascade ordering): once a method's call resolves to a text that is
\* non-empty after trimming, no later method is invoked in that call and
\* the call returns that text.
C2_CascadeOrdering ==
    Active =>
        /\ \A i \in 1..Len(call.settled) :
              UsableResult(call.settled[i].result) =>
                 /\ Done
                 /\ call.result = call.settled[i].result
                 /\ i = Len(call.settled)
                 /\ call.invoked[Len(call.invoked)] = call.settled[i].adapter
        /\ (Done /\ call.accepted # "") =>
              call.invoked[Len(call.invoked)] = call.accepted

\* Google Vision answered "Hi" to a stroke set of the largest size; AI
\* Vision, MyScript and the local patterns were never invoked
C2_Witness ==
    /\ Done
    /\ Len(call.strokes) = MaxStrokes
    /\ call.invoked = <<"Google Vision">>
    /\ call.result = Resolved(<<"H", "i">>)

\* C3 (Fallback guarantee, aiService): with the Google credential missing or
\* the placeholder, a call on a stroke set with ink invokes no network
\* adapter and returns the output of recognizeWithPatterns on the ink
\* strokes.
C3_FallbackGuarantee ==
    (impl = "aiService" /\ googleKey \in {Undefined, "", GooglePlaceholder} /\ Active) =>
        /\ \A i \in 1..Len(call.invoked) : call.invoked[i] \notin NetworkAdapters
        /\ call.fetches = << >>
        /\ HasInk(call.strokes) =>
              /\ Done
              /\ call.result = Resolved(CharacterPatterns(DrawStrokes(call.strokes)))
              /\ call.invoked = <<"Local Patterns">>

\* the placeholder key, a canvas, and a loop stroke recognized as "O"
C3_Witness ==
    /\ impl = "aiService"
    /\ googleKey = GooglePlaceholder
    /\ Done
    /\ call.canvas
    /\ call.strokes = <<LoopStroke>>
    /\ call.result = Resolved(<<"O">>)

\* C4 (First-success acceptance): the methods are invoked in the order of the
\* enabled methods; a method that rejects or resolves to an empty or
\* white-space text does not end the cascade and the next one is invoked;
\* the call returns the result of the first method that resolves to a text
\* non-empty after trimming.
C4_FirstSuccess ==
    Active =>
        /\ IsPrefix(call.invoked, EnabledNames \o <<"Local Patterns">>)
        /\ \A i \in 1..Len(call.settled) :
              LET s == call.settled[i] IN
              /\ Includes(call.invoked, s.adapter)
              /\ ~UsableResult(s.result) =>
                    /\ call.accepted # s.adapter
                    /\ call.invoked[Len(call.invoked)] # s.adapter
        /\ (Done /\ call.accepted \in NetworkAdapters) =>
              /\ call.result = call.settled[Len(call.settled)].result
              /\ call.accepted = call.settled[Len(call.settled)].adapter
              /\ UsableResult(call.result)
              /\ \A i \in 1..(Len(call.settled) - 1) :
                    ~UsableResult(call.settled[i].result)
        /\ (Done /\ call.accepted = "Local Patterns") =>
              /\ call.result = Resolved(recognizeWithPatterns(impl, call.strokes))
              /\ UsableResult(call.result)
              /\ \A i \in 1..Len(call.settled) :
                    ~UsableResult(call.settled[i].result)

\* Google Vision rejected, AI Vision resolved to white space, MyScript
\* resolved to " Ok\n", returned trimmed
C4_Witness ==
    /\ Done
    /\ Len(call.settled) = 3
    /\ call.settled[1].result = Rejected
    /\ call.settled[2].response = TextResponse(<<" ">>)
    /\ call.accepted = "MyScript"
    /\ call.result = Resolved(<<"O", "k">>)

\* C5: each recognition method is invoked at most once within one
\* recognizeHandwriting call.
C5_AtMostOnce ==
    Active =>
        \A i, j \in 1..Len(call.invoked) :
            i # j => call.invoked[i] # call.invoked[j]

\* the configured placeholder of an adapter's credential
UsableCredential(name) ==
    IF name = "MyScript"
    THEN Truthy(handwritingKey) /\ handwritingKey # MyScriptPlaceholder
         /\ Truthy(handwritingUrl)
    ELSE Truthy(googleKey) /\ googleKey # GooglePlaceholder

\* C6 (Enablement check): an adapter whose credential is empty, undefined or
\* the placeholder never issues a network request.
C6_NoFetchWithoutCredential ==
    Active =>
        \A i \in 1..Len(call.fetches) : UsableCredential(call.fetches[i])

\* C7 as claimed: an adapter rejects, and does not resolve to the empty
\* string, when the backend is unreachable, answers with a non-success
\* status, or answers without the expected text field.
C7_RejectsOnBadResponse ==
    Active =>
        \A i \in 1..Len(call.settled) :
            call.settled[i].response \in {NetworkError, HttpError, NoTextField}
                => call.settled[i].result = Rejected

\* C7 as amended: an adapter rejects when the backend is unreachable or
\* answers with a non-success status; when the answer lacks the expected
\* text field it resolves to the empty string.
C7_RejectsOrEmpty ==
    Active =>
        \A i \in 1..Len(call.settled) :
            LET s == call.settled[i] IN
            /\ s.response \in {NetworkError, HttpError} => s.result = Rejected
            /\ s.response = NoTextField => s.result = Resolved(EmptyText)

\* every kind of bad response has been read by some adapter of one call
C7_Witness ==
    /\ Done
    /\ Len(call.settled) = 3
    /\ call.settled[1].response = NetworkError
    /\ call.settled[2].response = HttpError
    /\ call.settled[3].response = NoTextField

\* C8: without a canvas the raster adapters (Google Vision, AI Vision) fail
\* before any fetch, the cascade goes on, and the call resolves - to the
\* output of recognizeWithPatterns unless a stroke adapter succeeded.
C8_NoCanvas ==
    (Active /\ ~call.canvas) =>
        /\ \A i \in 1..Len(call.fetches) : call.fetches[i] = "MyScript"
        /\ call.result.kind \in {"pending", "resolved"}
        /\ \A i \in 1..Len(call.invoked) :
              call.invoked[i] \in {"Google Vision", "AI Vision"} => Len(call.invoked) > i
        /\ (Done /\ call.accepted # "MyScript") =>
              call.result = Resolved(recognizeWithPatterns(impl, call.strokes))

\* a configured key, no canvas: both raster adapters were invoked and the
\* call returned the pattern text
C8_Witness ==
    /\ Done
    /\ ~call.canvas
    /\ googleKey = RealKey
    /\ impl = "aiService"
    /\ call.invoked = <<"Google Vision", "AI Vision", "Local Patterns">>
    /\ call.fetches = << >>
    /\ call.result = Resolved(<<"I">>)

(***************************************************************************)
(* The hook useHandwritingRecognition, part_006.                           *)
(***************************************************************************)
generateFallbackText(strokes) ==
    LET n == Len(strokes)
    IN  IF n = 0 THEN EmptyText
        ELSE IF n <= 2 THEN fallbackWords[n]
        ELSE IF n <= 5 THEN JoinSpace(SliceTo(fallbackWords, n))
        ELSE IF n <= 10 THEN
            fallbackSentences[MinOf(n - 6, Len(fallbackSentences) - 1) + 1]
        ELSE JoinSpace(SliceTo(fallbackSentences,
                               MinOf(n \div 5, Len(fallbackSentences))))

\* The text of a processStrokes call whose service call has returned: the
\* catch block turns a rejection into generateFallbackText of the ink.
ProcessResult(strokes, result) ==
    IF result.kind = "resolved" THEN result.text
    ELSE generateFallbackText(DrawStrokes(strokes))

\* processStrokes(strokes) up to its await of the service: a service call
\* that has returned ("done") or awaits a fetch.  An empty or an all-erase
\* stroke set returns '' without a service call.
processStrokes(im, gKey, hKey, hUrl, strokes, canvas) ==
    IF Len(strokes) = 0 \/ Len(DrawStrokes(strokes)) = 0
    THEN Finish(Entered(strokes, canvas), "", Resolved(EmptyText))
    ELSE Run(im, gKey, hKey, hUrl, Begin(im, DrawStrokes(strokes), canvas))

\* clearTimeout(id): the timer of that id, if it is still pending, is dropped
clearTimeout(ts, id) == {t \in ts : t.id # id}

\* a startRecognition that leaves the pending timer armed
CancelPreviousNever(ts, ref) == ts

\* if (recognitionTimeoutRef.current) clearTimeout(recognitionTimeoutRef.current)
CancelPrevious(ts, ref) == IF ref # 0 THEN clearTimeout(ts, ref) ELSE ts

TimerIds == 1..MaxTimers

\* setTimeout hands out an id no pending timer has
FreeIds(ts) == {i \in TimerIds : i # recognitionTimeoutRef /\ \A t \in ts : t.id # i}

\* the strokes the hook is shown: the writing so far, in the order drawn
Written(k) ==
    [i \in 1..k |-> IF i % 3 = 1 THEN DownStroke
                    ELSE IF i % 3 = 2 THEN LoopStroke ELSE EraserStroke]

HookStrokeSets == {Written(k) : k \in 0..MaxWritten} \cup {<<EraserStroke>>}

HookResponses == {NetworkError, TextResponse(<<"H", "i">>)}

Hooks == {"part_006", "editor"}

\* part_006 runs on either revision of the service, with the MyScript
\* backend configured and no Google key: part_011 then awaits one fetch,
\* aiService returns at once.  The editor revision calls no service.
HookInit ==
    /\ hook \in Hooks
    /\ \/ hook = "part_006" /\ impl \in Impls
       \/ hook = "editor" /\ impl = "aiService"
    /\ googleKey = Undefined
    /\ handwritingKey = RealKey
    /\ handwritingUrl = MyScriptUrl
    /\ call = NoCall
    /\ HookInitial

\* a startRecognition that blanks the text while the recognition is pending
startRecognitionClearing(strokes, canvas) ==
    LET kept == CancelPrevious(timers, recognitionTimeoutRef)
    IN  /\ FreeIds(kept) # {}
        /\ LET id == CHOOSE i \in FreeIds(kept) : \A j \in FreeIds(kept) : i <= j
           IN  /\ timers' = kept \cup {[id |-> id, strokes |-> strokes, elapsed |-> 0]}
               /\ recognitionTimeoutRef' = id
        /\ canvasRef' = (canvas \/ canvasRef)
        /\ lastStrokeCount' = Len(strokes)
        /\ isRecognizing' = TRUE
        /\ firedSinceEvent' = 0
        /\ lastEventStrokes' = strokes
        /\ clearedSinceEvent' = FALSE
        /\ coalesced' = (\E t \in timers : t.elapsed < DebounceTicks)
        /\ recognizedText' = EmptyText
        /\ UNCHANGED <<config, canvasVars, serviceVars, pageVars, attempts>>

\* startRecognition(strokes, canvas)
startRecognition(strokes, canvas) ==
    LET kept == CancelPrevious(timers, recognitionTimeoutRef)
    IN  /\ FreeIds(kept) # {}
        /\ LET id == CHOOSE i \in FreeIds(kept) : \A j \in FreeIds(kept) : i <= j
           IN  /\ timers' = kept \cup {[id |-> id, strokes |-> strokes, elapsed |-> 0]}
               /\ recognitionTimeoutRef' = id
        /\ canvasRef' = (canvas \/ canvasRef)
        /\ lastStrokeCount' = Len(strokes)
        /\ isRecognizing' = TRUE
        /\ firedSinceEvent' = 0
        /\ lastEventStrokes' = strokes
        /\ clearedSinceEvent' = FALSE
        /\ coalesced' = (\E t \in timers : t.elapsed < DebounceTicks)
        /\ UNCHANGED <<config, canvasVars, serviceVars, pageVars, recognizedText, attempts>>

\* time passes: every pending timer that is not yet due comes a tick closer
Tick ==
    /\ \E t \in timers : t.elapsed < DebounceTicks
    /\ timers' = {IF t.elapsed < DebounceTicks
                  THEN [t EXCEPT !.elapsed = @ + 1] ELSE t : t \in timers}
    /\ UNCHANGED <<config, canvasVars, serviceVars, pageVars, recognizedText, isRecognizing, lastStrokeCount,
                   canvasRef, recognitionTimeoutRef, attempts, firedSinceEvent,
                   lastEventStrokes, clearedSinceEvent, coalesced>>

\* A due timer fires: the callback calls processStrokes on the strokes of
\* its closure and, the service having returned at once, sets the text and
\* leaves the recognizing state; otherwise it awaits the service.
TimerFire(t) ==
    /\ t \in timers
    /\ t.elapsed = DebounceTicks
    /\ timers' = timers \ {t}
    /\ firedSinceEvent' = firedSinceEvent + 1
    /\ LET c == processStrokes(impl, googleKey, handwritingKey, handwritingUrl,
                               t.strokes, canvasRef)
       IN  IF c.pc = "done"
           THEN /\ recognizedText' = ProcessResult(t.strokes, c.result)
                /\ isRecognizing' = FALSE
                /\ UNCHANGED attempts
           ELSE /\ Len(attempts) < MaxInFlight
                /\ attempts' = Append(attempts, [strokes |-> t.strokes, call |-> c])
                /\ UNCHANGED <<recognizedText, isRecognizing>>
    /\ UNCHANGED <<config, canvasVars, serviceVars, pageVars, lastStrokeCount, canvasRef,
                   recognitionTimeoutRef, lastEventStrokes, clearedSinceEvent, coalesced>>

RemoveAt(s, i) == SubSeq(s, 1, i - 1) \o SubSeq(s, i + 1, Len(s))

\* The fetch the i-th attempt awaits settles; the service call runs on and,
\* when it returns, the callback sets the text and leaves the recognizing
\* state.
AttemptSettle(i, response) ==
    /\ i \in 1..Len(attempts)
    /\ LET c == Settled(impl, googleKey, handwritingKey, handwritingUrl,
                        attempts[i].call, response)
       IN  IF c.pc = "done"
           THEN /\ recognizedText' = ProcessResult(attempts[i].strokes, c.result)
                /\ isRecognizing' = FALSE
                /\ attempts' = RemoveAt(attempts, i)
           ELSE /\ attempts' = [attempts EXCEPT ![i].call = c]
                /\ UNCHANGED <<recognizedText, isRecognizing>>
    /\ UNCHANGED <<config, canvasVars, serviceVars, pageVars, lastStrokeCount, canvasRef,
                   recognitionTimeoutRef, timers, firedSinceEvent,
                   lastEventStrokes, clearedSinceEvent, coalesced>>

\* clearRecognition()
clearRecognition ==
    /\ recognizedText' = EmptyText
    /\ lastStrokeCount' = 0
    /\ timers' = CancelPrevious(timers, recognitionTimeoutRef)
    /\ clearedSinceEvent' = TRUE
    /\ UNCHANGED <<config, canvasVars, serviceVars, pageVars, isRecognizing, canvasRef,
                   recognitionTimeoutRef, attempts, firedSinceEvent,
                   lastEventStrokes, coalesced>>

(***************************************************************************)
(* The hook useHandwritingRecognition(editor),                             *)
(* hooks/useHandwritingRecognition.ts 152-324.                             *)
(***************************************************************************)
\* generateProgressiveText: const words
progressiveWords ==
    << <<"T", "h", "e">>,
       <<"q", "u", "i", "c", "k">>,
       <<"b", "r", "o", "w", "n">>,
       <<"f", "o", "x">>,
       <<"j", "u", "m", "p", "s">>,
       <<"o", "v", "e", "r">>,
       <<"t", "h", "e">>,
       <<"l", "a", "z", "y">>,
       <<"d", "o", "g">>,
       <<"W", "r", "i", "t", "i", "n", "g">>,
       <<"i", "s">>,
       <<"a">>,
       <<"w", "o", "n", "d", "e", "r", "f", "u", "l">>,
       <<"w", "a", "y">>,
       <<"t", "o">>,
       <<"e", "x", "p", "r", "e", "s", "s">>,
       <<"c", "r", "e", "a", "t", "i", "v", "i", "t", "y">>,
       <<"I">>,
       <<"l", "o", "v", "e">>,
       <<"c", "r", "e", "a", "t", "i", "n", "g">>,
       <<"s", "t", "o", "r", "i", "e", "s">>,
       <<"a", "n", "d">>,
       <<"s", "h", "a", "r", "i", "n", "g">>,
       <<"i", "d", "e", "a", "s">>,
       <<"T", "o", "d", "a", "y">>,
       <<"f", "e", "e", "l", "s">>,
       <<"l", "i", "k", "e">>,
       <<"a">>,
       <<"p", "e", "r", "f", "e", "c", "t">>,
       <<"d", "a", "y">>,
       <<"f", "o", "r">>,
       <<"w", "r", "i", "t", "i", "n", "g">>,
       <<"M", "y">>,
       <<"i", "m", "a", "g", "i", "n", "a", "t", "i", "o", "n">>,
       <<"f", "l", "o", "w", "s">>,
       <<"f", "r", "e", "e", "l", "y">>,
       <<"a", "c", "r", "o", "s", "s">>,
       <<"t", "h", "e">>,
       <<"p", "a", "g", "e">>,
       <<"E", "a", "c", "h">>,
       <<"w", "o", "r", "d">>,
       <<"b", "r", "i", "n", "g", "s">>,
       <<"n", "e", "w">>,
       <<"p", "o", "s", "s", "i", "b", "i", "l", "i", "t", "i", "e", "s">>,
       <<"t", "o">>,
       <<"l", "i", "f", "e">> >>

\* generateProgressiveText: const sentences
progressiveSentences ==
    << <<"T", "h", "e", " ", "q", "u", "i", "c", "k", " ", "b", "r", "o", "w", "n", " ", "f", "o", "x", " ", "j", "u", "m", "p", "s", " ", "o", "v", "e", "r", " ", "t", "h", "e", " ", "l", "a", "z", "y", " ", "d", "o", "g", ".">>,
       <<"W", "r", "i", "t", "i", "n", "g", " ", "i", "s", " ", "a", " ", "w", "o", "n", "d", "e", "r", "f", "u", "l", " ", "w", "a", "y", " ", "t", "o", " ", "e", "x", "p", "r", "e", "s", "s", " ", "c", "r", "e", "a", "t", "i", "v", "i", "t", "y", ".">>,
       <<"I", " ", "l", "o", "v", "e", " ", "c", "r", "e", "a", "t", "i", "n", "g", " ", "s", "t", "o", "r", "i", "e", "s", " ", "a", "n", "d", " ", "s", "h", "a", "r", "i", "n", "g", " ", "i", "d", "e", "a", "s", ".">>,
       <<"T", "o", "d", "a", "y", " ", "f", "e", "e", "l", "s", " ", "l", "i", "k", "e", " ", "a", " ", "p", "e", "r", "f", "e", "c", "t", " ", "d", "a", "y", " ", "f", "o", "r", " ", "w", "r", "i", "t", "i", "n", "g", ".">>,
       <<"M", "y", " ", "i", "m", "a", "g", "i", "n", "a", "t", "i", "o", "n", " ", "f", "l", "o", "w", "s", " ", "f", "r", "e", "e", "l", "y", " ", "a", "c", "r", "o", "s", "s", " ", "t", "h", "e", " ", "p", "a", "g", "e", ".">>,
       <<"E", "a", "c", "h", " ", "w", "o", "r", "d", " ", "b", "r", "i", "n", "g", "s", " ", "n", "e", "w", " ", "p", "o", "s", "s", "i", "b", "i", "l", "i", "t", "i", "e", "s", " ", "t", "o", " ", "l", "i", "f", "e", ".">>,
       <<"S", "t", "o", "r", "i", "e", "s", " ", "h", "a", "v", "e", " ", "t", "h", "e", " ", "p", "o", "w", "e", "r", " ", "t", "o", " ", "t", "r", "a", "n", "s", "p", "o", "r", "t", " ", "u", "s", " ", "a", "n", "y", "w", "h", "e", "r", "e", ".">>,
       <<"C", "r", "e", "a", "t", "i", "v", "e", " ", "w", "r", "i", "t", "i", "n", "g", " ", "o", "p", "e", "n", "s", " ", "d", "o", "o", "r", "s", " ", "t", "o", " ", "i", "n", "f", "i", "n", "i", "t", "e", " ", "w", "o", "r", "l", "d", "s", ".">>,
       <<"E", "v", "e", "r", "y", " ", "s", "e", "n", "t", "e", "n", "c", "e", " ", "i", "s", " ", "a", " ", "s", "t", "e", "p", " ", "o", "n", " ", "a", " ", "j", "o", "u", "r", "n", "e", "y", " ", "o", "f", " ", "d", "i", "s", "c", "o", "v", "e", "r", "y", ".">> >>

generateProgressiveText(totalShapes, newShapes) ==
    IF totalShapes = 0 THEN EmptyText
    ELSE IF totalShapes <= 2 THEN progressiveWords[1]
    ELSE IF totalShapes <= 4 THEN JoinSpace(SliceTo(progressiveWords, 2))
    ELSE IF totalShapes <= 6 THEN JoinSpace(SliceTo(progressiveWords, 3))
    ELSE IF totalShapes <= 8 THEN JoinSpace(SliceTo(progressiveWords, 4))
    ELSE IF totalShapes <= 12 THEN JoinSpace(SliceTo(progressiveWords, 6))
    ELSE IF totalShapes <= 16 THEN progressiveSentences[1]
    ELSE IF totalShapes <= 24 THEN JoinSpace(SliceTo(progressiveSentences, 2))
    ELSE IF totalShapes <= 32 THEN JoinSpace(SliceTo(progressiveSentences, 3))
    ELSE JoinSpace(SliceTo(progressiveSentences,
                           MinOf(totalShapes \div 8, Len(progressiveSentences))))

ShapeIds == 1..MaxShapes

\* processStrokes(): the text it resolves to and the ids it leaves in
\* lastProcessedShapeIds, read off the page as it is when it runs
processStrokesEditor(page, processed) ==
    IF page = {} THEN [text |-> EmptyText, ids |-> processed]
    ELSE [text |-> generateProgressiveText(Cardinality(page),
                                           Cardinality(page \ processed)),
          ids |-> page]

\* startRecognition()
startRecognitionEditor ==
    LET kept == CancelPrevious(timers, recognitionTimeoutRef)
    IN  /\ FreeIds(kept) # {}
        /\ LET id == CHOOSE i \in FreeIds(kept) : \A j \in FreeIds(kept) : i <= j
           IN  /\ timers' = kept \cup {[id |-> id, strokes |-> << >>, elapsed |-> 0]}
               /\ recognitionTimeoutRef' = id
        /\ lastStrokeCount' = Cardinality(shapes)
        /\ isRecognizing' = TRUE
        /\ firedSinceEvent' = 0
        /\ clearedSinceEvent' = FALSE
        /\ coalesced' = (\E t \in timers : t.elapsed < DebounceTicks)
        /\ UNCHANGED <<config, canvasVars, serviceVars, pageVars, recognizedText, attempts,
                       canvasRef, lastEventStrokes>>

\* A due timer fires: processStrokes() has no await of its own, the
\* callback sets the text and leaves the recognizing state.
TimerFireEditor(t) ==
    /\ t \in timers
    /\ t.elapsed = DebounceTicks
    /\ timers' = timers \ {t}
    /\ firedSinceEvent' = firedSinceEvent + 1
    /\ LET r == processStrokesEditor(shapes, lastProcessedShapeIds)
       IN  /\ recognizedText' = r.text
           /\ lastProcessedShapeIds' = r.ids
    /\ isRecognizing' = FALSE
    /\ UNCHANGED <<config, canvasVars, serviceVars, shapes, lastStrokeCount, canvasRef, attempts,
                   recognitionTimeoutRef, lastEventStrokes, clearedSinceEvent, coalesced>>

\* the pages one change of the user's leads to: a shape drawn, a shape
\* deleted, the page emptied
PagesAfter(page) ==
    {page \cup {id} : id \in ShapeIds \ page}
        \cup {page \ {id} : id \in page}
        \cup {{} : id \in page}

\* The editor emits 'change' and handleChange runs on the changed page.
handleChange(page) ==
    /\ page \in PagesAfter(shapes)
    /\ shapes' = page
    /\ IF page = {} /\ recognizedText # EmptyText
       THEN /\ recognizedText' = EmptyText
            /\ lastProcessedShapeIds' = {}
            /\ lastStrokeCount' = 0
       ELSE UNCHANGED <<recognizedText, lastProcessedShapeIds, lastStrokeCount>>
    /\ UNCHANGED <<config, canvasVars, serviceVars, isRecognizing, canvasRef, recognitionTimeoutRef,
                   timers, attempts, firedSinceEvent, lastEventStrokes,
                   clearedSinceEvent, coalesced>>

HookNext ==
    \/ /\ hook = "part_006"
       /\ \E strokes \in HookStrokeSets, canvas \in BOOLEAN :
              startRecognition(strokes, canvas)
    \/ Tick
    \/ hook = "part_006" /\ \E t \in timers : TimerFire(t)
    \/ \E i \in 1..MaxInFlight, response \in HookResponses : AttemptSettle(i, response)
    \/ hook = "part_006" /\ clearRecognition
    \/ hook = "editor" /\ startRecognitionEditor
    \/ hook = "editor" /\ \E t \in timers : TimerFireEditor(t)
    \/ hook = "editor" /\ \E page \in SUBSET ShapeIds : handleChange(page)

HookSpec == HookInit /\ [][HookNext]_vars

(***************************************************************************)
(* Properties of the hook.                                                 *)
(***************************************************************************)
\* a startRecognition step: setTimeout hands out an id other than the ref's
EventStep == recognitionTimeoutRef' # recognitionTimeoutRef

\* a step in which a timer callback runs
FireStep == firedSinceEvent' = firedSinceEvent + 1

\* what the callback of a timer fired on strokes does before any await
AttemptOn(strokes) ==
    processStrokes(impl, googleKey, handwritingKey, handwritingUrl, strokes, canvasRef)

\* C9 (Debounce coalescing): startRecognition events that each come before
\* the timer of the previous one is due start no recognition attempt but
\* one, after the last of them, and that attempt (one processStrokes call)
\* runs on the strokes the last event passed.
C9_DebounceCoalescing ==
    \* at most one attempt follows the last event, none while its timer is pending
    /\ [](firedSinceEvent <= 1)
    /\ [](timers # {} => firedSinceEvent = 0)
    \* the timer of the last event is neither lost nor doubled
    /\ []((recognitionTimeoutRef # 0 /\ ~clearedSinceEvent /\ firedSinceEvent = 0) =>
            /\ Cardinality(timers) = 1
            /\ \A t \in timers : /\ t.id = recognitionTimeoutRef
                                 /\ t.strokes = lastEventStrokes
                                 /\ t.elapsed <= DebounceTicks)
    \* an event that comes before the previous timer is due cancels it unfired
    /\ [][(EventStep /\ \E t \in timers : t.elapsed < DebounceTicks) =>
            /\ firedSinceEvent = 0
            /\ firedSinceEvent' = 0
            /\ \A t \in timers : t.id \notin {u.id : u \in timers'}]_vars
    \* the attempt runs on the strokes of the last event
    /\ [][(hook = "part_006" /\ FireStep) =>
            /\ \E t \in timers :
                  /\ t.elapsed = DebounceTicks
                  /\ t.strokes = lastEventStrokes
                  /\ timers' = timers \ {t}
            /\ IF AttemptOn(lastEventStrokes).pc = "done"
               THEN /\ attempts' = attempts
                    /\ recognizedText' =
                          ProcessResult(lastEventStrokes, AttemptOn(lastEventStrokes).result)
               ELSE attempts' =
                       Append(attempts, [strokes |-> lastEventStrokes,
                                         call |-> AttemptOn(lastEventStrokes)])]_vars

\* two events or more were coalesced and the one attempt that followed
\* awaits a backend on the strokes of the last event
C9_Witness ==
    /\ coalesced
    /\ firedSinceEvent = 1
    /\ lastEventStrokes = Written(MaxWritten)
    /\ Len(attempts) = 1
    /\ attempts[1].strokes = Written(MaxWritten)
    /\ recognizedText = EmptyText

\* C10 (Staleness suppression on clear): after clearRecognition, and until
\* the next startRecognition, recognizedText reads as the empty string; the
\* result of a cascade that was in flight at the clear is not written.
C10_StaleSuppressed ==
    clearedSinceEvent => recognizedText = EmptyText

\* C11 (Clear before firing): when clearRecognition comes after a
\* startRecognition and before its timer has fired, the timer is cancelled,
\* no processStrokes call is ever made for that event, and recognizedText
\* reads as the empty string from then on until the next event.
C11_ClearBeforeFiring ==
    (hook = "part_006" /\ recognitionTimeoutRef # 0
        /\ clearedSinceEvent /\ firedSinceEvent = 0) =>
        /\ timers = {}
        /\ recognizedText = EmptyText

\* C12 (Single cascade in flight): at no time do two recognition attempts
\* await the service; a timer that fires while an earlier attempt is still
\* awaiting a backend starts no second cascade.
C12_SingleCascade ==
    Len(attempts) <= 1

\* the results a service call may return with, over the answers of the
\* backends it still awaits
RECURSIVE Outcomes(_)
Outcomes(c) ==
    IF c.pc = "done" THEN {c.result}
    ELSE UNION {Outcomes(Settled(impl, googleKey, handwritingKey, handwritingUrl, c, r)) :
                   r \in HookResponses}

\* the texts an attempt built from strokes may write
AttemptTexts(strokes) ==
    {ProcessResult(strokes, r) : r \in Outcomes(AttemptOn(strokes))}

\* C13 (Ordering guarantee): once the attempt of the latest stroke event has
\* been started and every attempt has completed, recognizedText is the
\* result of the attempt built from the latest stroke set; the result of an
\* older attempt that completes later is discarded.
C13_LatestWins ==
    (hook = "part_006" /\ timers = {} /\ attempts = << >>
        /\ firedSinceEvent = 1 /\ ~clearedSinceEvent) =>
        recognizedText \in AttemptTexts(lastEventStrokes)

\* The stroke set of the canvas: stopDrawing and clearCanvas hand every new
\* value of it to onStrokeComplete, so it is what the last startRecognition
\* was given.
CurrentStrokes == lastEventStrokes

C15_ReturnsToIdle ==
    (timers = {} /\ attempts = << >>) => ~isRecognizing

\* C16 (Single debounce timer): in every reachable state, of either
\* revision of the hook, at most one recognition timer is pending, and it
\* is the one recognitionTimeoutRef holds.
C16_SingleTimer ==
    /\ Cardinality(timers) <= 1
    /\ \A t \in timers : t.id = recognitionTimeoutRef

\* a second event came while the timer of the first was pending: the first
\* timer is gone and the second is the only one
C16_Witness ==
    /\ coalesced
    /\ recognitionTimeoutRef = 2
    /\ Cardinality(timers) = 1

\* C17 (Session reset): once the stroke set has become empty - the page of
\* the editor holds no draw shape, or clearRecognition was called -
\* recognizedText reads as the empty string at the reset and the stroke
\* count and the set of processed ids are zero and empty.
C17_SessionReset ==
    /\ (hook = "editor" /\ shapes = {}) =>
          /\ recognizedText = EmptyText
          /\ lastProcessedShapeIds = {}
          /\ lastStrokeCount = 0
    /\ (hook = "part_006" /\ clearedSinceEvent) => lastStrokeCount = 0

\* a step that completes a recognition attempt: a timer callback that ran to
\* its end at once, or an awaited service call that returned
CompletionStep == FireStep \/ Len(attempts') < Len(attempts)

\* a step that resets the session: clearRecognition, or handleChange on a
\* page left without draw shapes
ResetStep ==
    \/ /\ hook = "part_006"
       /\ clearedSinceEvent'
       /\ attempts' = attempts
       /\ firedSinceEvent' = firedSinceEvent
    \/ hook = "editor" /\ shapes # {} /\ shapes' = {}

\* C18 as claimed (Frame): recognizedText and the stroke count change only
\* when a recognition attempt completes or at the reset; a stroke event
\* that only arms the timer leaves both unchanged.
C18_OnlyByCompletion ==
    [][/\ recognizedText' # recognizedText => (CompletionStep \/ ResetStep)
       /\ lastStrokeCount' # lastStrokeCount => (CompletionStep \/ ResetStep)
       /\ EventStep => /\ recognizedText' = recognizedText
                       /\ lastStrokeCount' = lastStrokeCount]_vars

\* C18 as amended: recognizedText changes only when a recognition attempt
\* completes or at the reset, and a stroke event leaves it unchanged; the
\* stroke count is set by every stroke event, to the size of the stroke set
\* of the event, is reset to zero at the reset, and is left unchanged by a
\* completing attempt.
C18_TextByCompletionCountByEvent ==
    [][/\ recognizedText' # recognizedText =>
             \/ CompletionStep
             \/ ResetStep /\ recognizedText' = EmptyText
       /\ EventStep =>
             /\ recognizedText' = recognizedText
             /\ lastStrokeCount' = IF hook = "part_006" THEN Len(lastEventStrokes')
                                   ELSE Cardinality(shapes)
       /\ lastStrokeCount' # lastStrokeCount =>
             \/ EventStep
             \/ ResetStep /\ lastStrokeCount' = 0
       /\ CompletionStep => lastStrokeCount' = lastStrokeCount]_vars

\* a text has been recognized and a later stroke event has armed its timer:
\* the text is still there and the count is that of the new stroke set
C18_Witness ==
    /\ hook = "part_006"
    /\ recognizedText # EmptyText
    /\ timers # {}
    /\ firedSinceEvent = 0
    /\ lastStrokeCount = MaxWritten
    /\ lastStrokeCount = Len(lastEventStrokes)

\* the strokes of a set that are not erase strokes
InkOf(strokes) == SelectSeq(strokes, LAMBDA s : s.color # "transparent")

\* C19 (Erase strokes excluded): the pattern result of a stroke set is its
\* result for the same set without its erase strokes - in a call that
\* returned the pattern text, and in processStrokes of the hook - and a
\* non-empty set of erase strokes only is recognized as the empty string
\* without any method being invoked.
C19_EraseExcluded ==
    /\ (impl = "aiService" /\ Done /\ call.accepted = "Local Patterns") =>
          \A s \in StrokeSets :
              InkOf(s) = call.strokes =>
                  Resolved(recognizeWithPatterns(impl, s)) = call.result
    /\ (impl = "aiService" /\ Done /\ Len(call.strokes) > 0
            /\ InkOf(call.strokes) = << >>) =>
          /\ call.result = Resolved(EmptyText)
          /\ call.invoked = << >>
          /\ call.fetches = << >>
    /\ call = NoCall =>
          \A s \in StrokeSets, canvas \in BOOLEAN :
              LET whole == processStrokes(impl, googleKey, handwritingKey,
                                          handwritingUrl, s, canvas)
                  ink == processStrokes(impl, googleKey, handwritingKey,
                                        handwritingUrl, InkOf(s), canvas)
              IN  /\ whole.result = ink.result
                  /\ whole.invoked = ink.invoked
                  /\ InkOf(s) = << >> =>
                        /\ whole.result = Resolved(EmptyText)
                        /\ whole.invoked = << >>

\* a call of the aiService revision returned "O" for a loop stroke, which is
\* the ink of larger stroke sets that hold erase strokes as well
C19_Witness ==
    /\ impl = "aiService"
    /\ Done
    /\ call.accepted = "Local Patterns"
    /\ call.strokes = <<LoopStroke>>
    /\ call.result = Resolved(<<"O">>)
    /\ \E s \in StrokeSets : Len(s) = MaxStrokes /\ InkOf(s) = call.strokes

\* C20 (Empty stroke set): a call for the empty stroke set resolves to the
\* empty string, whatever keys and endpoint are configured.
C20_EmptySetEmptyText ==
    (Done /\ Len(call.strokes) = 0) => call.result = Resolved(EmptyText)

(***************************************************************************)
(* Recognition by patterns alone: calls with no adapter configured, for    *)
(* strokes of many shapes.                                                 *)
(***************************************************************************)
\* the end of a two-point stroke lies at most this far from its start, in
\* each coordinate
GridR == 3
\* points of the longest stroke drawn step by step
MaxPoints == 6
\* strokes of the largest stroke set
MaxInk == 9

Grid == (-GridR)..GridR

\* a stroke from the origin to (dx, dy) by way of the points of via
StrokeTo(via, dx, dy) == Ink(<<Pt(0, 0)>> \o via \o <<Pt(dx, dy)>>)

\* strokes of two points, and of three with a detour to the upper right
DirectionStrokes ==
    {StrokeTo(<< >>, dx, dy) : dx \in Grid, dy \in Grid}
        \cup {StrokeTo(<<Pt(GridR + 2, -(GridR + 2))>>, dx, dy) : dx \in Grid, dy \in Grid}

\* a stroke without a point and a stroke of one point
PointStrokes == {Ink(<< >>), Ink(<<Pt(4, 4)>>)}

Square == <<Pt(0, 0), Pt(10, 0), Pt(10, 10), Pt(0, 10)>>

\* a stroke of n points that starts at the origin, goes round a square and
\* ends at (dx, dy)
Wander(n, dx, dy) ==
    Ink([i \in 1..n |-> IF i = 1 THEN Pt(0, 0)
                        ELSE IF i = n THEN Pt(dx, dy)
                        ELSE Square[((i - 1) % 4) + 1]])

\* where the strokes that go round the square end: on a coarse grid, and
\* at distances of 19 to 21 from the start
ClosedEnds ==
    {<<7 * dx, 7 * dy>> : dx \in Grid, dy \in Grid}
        \cup {<<12, 16>>, <<16, 12>>, <<19, 0>>, <<20, 0>>, <<0, 19>>,
              <<0, -20>>, <<-12, -16>>, <<-11, -16>>, <<14, 14>>, <<15, 14>>}

ClosedStrokes ==
    {Wander(n, e[1], e[2]) :
        n \in {ClosedMinPoints - 1, ClosedMinPoints, ClosedMinPoints + 1},
        e \in ClosedEnds}

\* steps of one pixel to the right, down, to the left and up-left
Steps == {<<1, 0>>, <<0, 1>>, <<-1, 0>>, <<-1, -1>>}

\* the points of a walk from the origin by the steps of st
RECURSIVE Walk(_)
Walk(st) ==
    IF Len(st) = 0 THEN <<Pt(0, 0)>>
    ELSE LET before == Walk(SubSeq(st, 1, Len(st) - 1))
             last == before[Len(before)]
         IN  Append(before, Pt(last.x + st[Len(st)][1], last.y + st[Len(st)][2]))

\* strokes of 4 to MaxPoints points drawn pixel by pixel
WalkStrokes ==
    {Ink(Walk(st)) : st \in UNION {[1..k -> Steps] : k \in 3..(MaxPoints - 1)}}

\* strokes whose bounding boxes overlap, touch or lie apart
BoxPool ==
    {Ink(<<Pt(0, 0), Pt(10, 10)>>),
     Ink(<<Pt(10, 10), Pt(20, 20)>>),
     Ink(<<Pt(11, 0), Pt(20, 9)>>),
     Ink(<<Pt(5, 30), Pt(5, 60)>>),
     Ink(<<Pt(30, 40), Pt(60, 40)>>),
     Ink(<<Pt(10, 0), Pt(10, 30)>>),
     LoopStroke}

BoxSets == UNION {[1..k -> BoxPool] : k \in 2..MaxStrokes}

\* stroke sets of 4 to MaxInk strokes
LongSets ==
    {[i \in 1..n |-> row[(i % Len(row)) + 1]] :
        n \in 4..MaxInk,
        row \in {<<DownStroke>>,
                 <<DownStroke, Ink(<<Pt(30, 40), Pt(60, 40)>>)>>,
                 <<LoopStroke, Ink(<<Pt(0, 0), Pt(10, 10)>>), EraserStroke>>}}

PatternInputs ==
    {<< >>}
        \cup {<<s>> : s \in DirectionStrokes \cup PointStrokes
                                \cup ClosedStrokes \cup WalkStrokes}
        \cup BoxSets \cup LongSets

\* no adapter of the revision gets to its fetch
PatternInit ==
    /\ impl \in Impls
    /\ googleKey \in (IF impl = "part_011" THEN {Undefined}
                      ELSE {Undefined, GooglePlaceholder})
    /\ handwritingKey = Undefined
    /\ handwritingUrl = Undefined
    /\ hook = "part_006"
    /\ call = NoCall
    /\ HookInitial

PatternNext ==
    \/ /\ call.pc = "idle"
       /\ \E strokes \in PatternInputs, canvas \in BOOLEAN : Call(strokes, canvas)
    \/ Return

PatternSpec == PatternInit /\ [][PatternNext]_vars

\* the call returned what recognizeWithPatterns made of its ink strokes
ByPatterns == Done /\ call.accepted = "Local Patterns"

\* the ink strokes that recognizeWithPatterns analyzed
Analyzed == InkOf(call.strokes)

\* the strokes that isCurved walks have no two segments at exactly 45
\* degrees but those for which AngleDiffAboveQuarterPi is what is computed
CompassTiesOnly ==
    ByPatterns =>
        \A k \in 1..Len(Analyzed) :
            LET points == Analyzed[k].points IN
            \A i \in 2..(Len(points) - 1) :
                Len(points) >= 5 =>
                LET v1 == Segment(points[i - 1], points[i])
                    v2 == Segment(points[i], points[i + 1])
                    a == IF v1.dx = 0 /\ v1.dy = 0 THEN [dx |-> 1, dy |-> 0] ELSE v1
                    b == IF v2.dx = 0 /\ v2.dy = 0 THEN [dx |-> 1, dy |-> 0] ELSE v2
                    dot == a.dx * b.dx + a.dy * b.dy
                    cross == a.dx * b.dy - a.dy * b.dx
                    compass(v) == v.dx = 0 \/ v.dy = 0 \/ Abs(v.dx) = Abs(v.dy)
                IN  (dot > 0 /\ Abs(cross) = dot) =>
                        \/ compass(a) /\ compass(b)
                        \/ a = [dx |-> -5, dy |-> -10] /\ b = [dx |-> 3, dy |-> -9]

\* C21 (Vertical stroke): with no adapter configured, a single ink stroke
\* of at least 2 points whose direction from first to last point is "down"
\* or "up" is recognized as "I"; a stroke that ends straight below or above
\* its first point is one.
C21_VerticalStrokeIsI ==
    (impl = "aiService" /\ ByPatterns /\ Len(Analyzed) = 1) =>
        LET points == Analyzed[1].points IN
        /\ (/\ Len(points) >= 2
            /\ call.analysis.strokeDirections[1] \in {"down", "up"}) =>
                call.result = Resolved(<<"I">>)
        /\ (/\ Len(points) >= 2
            /\ points[1].x = points[Len(points)].x
            /\ points[1].y # points[Len(points)].y) =>
                call.result = Resolved(<<"I">>)

\* a stroke of two points, the second below the first, was recognized as "I"
C21_Witness ==
    /\ impl = "aiService"
    /\ ByPatterns
    /\ Len(call.strokes) = 1
    /\ Len(call.strokes[1].points) = 2
    /\ call.strokes[1].points[2].x = call.strokes[1].points[1].x
    /\ call.strokes[1].points[2].y > call.strokes[1].points[1].y
    /\ call.analysis.strokeDirections = <<"down">>
    /\ call.result = Resolved(<<"I">>)

\* C22 (Closed stroke): with no adapter configured, a single ink stroke of
\* at least 10 points whose last point is less than 20 px from its first is
\* recognized as "O", whatever the direction from its first to its last
\* point.
C22_ClosedStrokeIsO ==
    (impl = "aiService" /\ ByPatterns /\ Len(Analyzed) = 1) =>
        LET points == Analyzed[1].points
            dx == points[Len(points)].x - points[1].x
            dy == points[Len(points)].y - points[1].y
        IN  (Len(points) >= 10 /\ dx * dx + dy * dy < 20 * 20) =>
                call.result = Resolved(<<"O">>)

\* C23 (Canned tables): with no adapter configured, a set of n ink strokes,
\* n above 3, is recognized as the entry at index n mod 13 of the table of
\* 13 words for n up to 8 and as the entry at index n mod 7 of the table of
\* 7 sentences above; 5 strokes give the word at index 5, "good".
C23_CannedEntry ==
    (impl = "aiService" /\ ByPatterns /\ Len(Analyzed) > 3) =>
        LET n == Len(Analyzed) IN
        /\ Len(commonWords) = 13 /\ Len(charSentences) = 7
        /\ n <= 8 => call.result = Resolved(commonWords[(n % 13) + 1])
        /\ n > 8 => call.result = Resolved(charSentences[(n % 7) + 1])
        /\ n = 5 => call.result = Resolved(<<"g", "o", "o", "d">>)

\* five ink strokes were recognized as "good"
C23_Witness ==
    /\ impl = "aiService"
    /\ ByPatterns
    /\ Len(call.strokes) = 5
    /\ call.analysis.strokeCount = 5
    /\ call.result = Resolved(<<"g", "o", "o", "d">>)

\* stroke sets to compare a call's stroke set with
CountSamples ==
    LongSets \cup UNION {[1..k -> {DownStroke, LoopStroke}] : k \in 1..MaxStrokes}

\* for the samples of n ink strokes, the features of their ink strokes and
\* what each revision's recognizeWithPatterns makes of them
SamplesByCount ==
    [n \in 0..MaxInk |->
        {[features |-> analyzeStrokesForCharacters(InkOf(s)),
          text |-> [im \in Impls |-> recognizeWithPatterns(im, s)]] :
            s \in {t \in CountSamples : Len(InkOf(t)) = n}}]

\* C24 (Determined by the count), as claimed: any two stroke sets with the
\* same number of ink strokes are recognized by patterns as the same text.
C24_SameCountSameOutput ==
    ByPatterns =>
        \A s \in SamplesByCount[Len(Analyzed)] :
            Resolved(s.text[impl]) = call.result

\* C24 (Determined by the count), amended: two stroke sets with the same
\* number of ink strokes are recognized by patterns as the same text in the
\* part_011 revision, and in the aiService revision when they have more
\* than 3 ink strokes or the same directions, number of closed shapes and
\* number of intersections.
C24_SameCountSameFeatures ==
    ByPatterns =>
        \A s \in SamplesByCount[Len(Analyzed)] :
            (\/ impl = "part_011"
             \/ Len(Analyzed) > 3
             \/ /\ s.features.strokeDirections = call.analysis.strokeDirections
                /\ s.features.closedShapes = call.analysis.closedShapes
                /\ s.features.intersections = call.analysis.intersections) =>
                Resolved(s.text[impl]) = call.result

\* four ink strokes were recognized by the aiService revision as another
\* set of four ink strokes is, one with another number of closed shapes
C24_Witness ==
    /\ impl = "aiService"
    /\ ByPatterns
    /\ Len(Analyzed) = 4
    /\ \E s \in SamplesByCount[4] :
          /\ s.features.closedShapes # call.analysis.closedShapes
          /\ Resolved(s.text[impl]) = call.result

\* the elements of a sequence
Range(s) == {s[i] : i \in 1..Len(s)}

\* the strings that strokesToCharacters returns
CharacterTexts ==
    {<<"I">>, <<"-">>, <<"O">>, <<"l">>, <<"X">>, <<"L">>, <<"H">>,
     <<"P">>, <<"A">>, <<"F">>}
        \cup Range(commonWords) \cup Range(charSentences)

\* C25 (The synthesizer never fails): recognition by patterns returns a
\* string for every stroke set, strokes of no point, of one point and with
\* the same first and last point included: the call resolves, and with ink
\* in the aiService revision to one of the strings of strokesToCharacters.
C25_PatternsNeverFail ==
    Done =>
        /\ call.result.kind = "resolved"
        /\ (impl = "aiService" /\ Len(Analyzed) > 0) =>
              /\ ByPatterns
              /\ call.analysis.strokeCount = Len(Analyzed)
              /\ call.result.text \in CharacterTexts

\* a stroke of a single point was recognized as "l"
C25_Witness ==
    /\ impl = "aiService"
    /\ ByPatterns
    /\ Len(call.strokes) = 1
    /\ Len(call.strokes[1].points) = 1
    /\ call.analysis.strokeDirections = <<"point">>
    /\ call.result = Resolved(<<"l">>)

\* the 8 octants in the order of their angles from 0 degrees on, y pointing
\* down, each with a vector along its middle
Octants ==
    <<[name |-> "right", cx |-> 1, cy |-> 0],
      [name |-> "down-right", cx |-> 1, cy |-> 1],
      [name |-> "down", cx |-> 0, cy |-> 1],
      [name |-> "down-left", cx |-> -1, cy |-> 1],
      [name |-> "left", cx |-> -1, cy |-> 0],
      [name |-> "up-left", cx |-> -1, cy |-> -1],
      [name |-> "up", cx |-> 0, cy |-> -1],
      [name |-> "up-right", cx |-> 1, cy |-> -1]>>

\* The vector (dx, dy) lies within 22.5 degrees of the middle of octant o:
\* the cosine of the angle between them is positive and its square is at
\* least that of 22.5 degrees, (2 + sqrt 2) / 4.  The vector of no length has
\* the angle 0.
WithinOctant(dx, dy, o) ==
    IF dx = 0 /\ dy = 0 THEN o.name = "right"
    ELSE LET dot == dx * o.cx + dy * o.cy
             norms == (dx * dx + dy * dy) * (o.cx * o.cx + o.cy * o.cy)
             a == 4 * dot * dot - 2 * norms
         IN  dot > 0 /\ a >= 0 /\ a * a >= 2 * norms * norms

\* C27 (Direction): the analysis gives a stroke of fewer than 2 points the
\* direction "point", and a stroke of at least 2 points the one octant
\* within which the vector from its first to its last point lies; each such
\* vector lies within exactly one octant, so no direction is "unknown".
C27_DirectionOctant ==
    (impl = "aiService" /\ ByPatterns) =>
        /\ Len(call.analysis.strokeDirections) = Len(Analyzed)
        /\ \A k \in 1..Len(Analyzed) :
              LET points == Analyzed[k].points
                  direction == call.analysis.strokeDirections[k]
              IN  IF Len(points) < 2 THEN direction = "point"
                  ELSE LET dx == points[Len(points)].x - points[1].x
                           dy == points[Len(points)].y - points[1].y
                           within == {i \in 1..8 : WithinOctant(dx, dy, Octants[i])}
                       IN  /\ Cardinality(within) = 1
                           /\ \A i \in within : direction = Octants[i].name

\* a stroke of two points that ends to the left of and slightly above its
\* first point was given the direction "left"
C27_Witness ==
    /\ impl = "aiService"
    /\ ByPatterns
    /\ Len(call.strokes) = 1
    /\ Len(call.strokes[1].points) = 2
    /\ call.strokes[1].points[2].x < call.strokes[1].points[1].x
    /\ call.strokes[1].points[2].y < call.strokes[1].points[1].y
    /\ call.analysis.strokeDirections = <<"left">>

\* C28 (Closed shape): the closed shapes that the analysis counts are the
\* strokes of at least 10 points whose last point is less than 20 px from
\* the first; a stroke of fewer than 10 points or with its ends 20 px apart
\* is not one.
C28_ClosedShapes ==
    (impl = "aiService" /\ ByPatterns) =>
        call.analysis.closedShapes =
            Cardinality({k \in 1..Len(Analyzed) :
                LET points == Analyzed[k].points IN
                /\ Len(points) >= 10
                /\ LET dx == points[Len(points)].x - points[1].x
                       dy == points[Len(points)].y - points[1].y
                   IN  dx * dx + dy * dy < 400})

\* a stroke of 10 points that ends 19 px from its first point was counted
\* as a closed shape
C28_Witness ==
    /\ impl = "aiService"
    /\ ByPatterns
    /\ Len(call.strokes) = 1
    /\ Len(call.strokes[1].points) = 10
    /\ call.strokes[1].points[10].x - call.strokes[1].points[1].x = 19
    /\ call.strokes[1].points[10].y = call.strokes[1].points[1].y
    /\ call.analysis.closedShapes = 1

\* The bounding boxes of two strokes overlap or touch: in x and in y, some
\* point of each stroke lies no further along than some point of the other.
BoxesOverlap(s, t) ==
    LET P == Range(s.points)
        Q == Range(t.points)
    IN  /\ \E a \in P, b \in Q : a.x <= b.x
        /\ \E a \in P, b \in Q : b.x <= a.x
        /\ \E a \in P, b \in Q : a.y <= b.y
        /\ \E a \in P, b \in Q : b.y <= a.y

\* strokes with the strokes at i and j exchanged
Exchanged(strokes, i, j) ==
    [k \in 1..Len(strokes) |->
        IF k = i THEN strokes[j] ELSE IF k = j THEN strokes[i] ELSE strokes[k]]

\* C29 (Intersections): the number of intersections of the analysis is the
\* number of unordered pairs of distinct strokes whose bounding boxes
\* overlap or touch, and it is the same with any two strokes exchanged.
C29_IntersectionCount ==
    (impl = "aiService" /\ ByPatterns) =>
        LET n == Len(Analyzed) IN
        /\ call.analysis.intersections =
              Cardinality({pair \in SUBSET (1..n) :
                  /\ Cardinality(pair) = 2
                  /\ \E i \in pair, j \in pair :
                        i < j /\ BoxesOverlap(Analyzed[i], Analyzed[j])})
        /\ \A i \in 1..n, j \in 1..n :
              i < j =>
                  countStrokeIntersections(Exchanged(Analyzed, i, j))
                      = call.analysis.intersections

\* two strokes whose bounding boxes share a corner and no more were counted
\* as one intersection
C29_Witness ==
    /\ impl = "aiService"
    /\ ByPatterns
    /\ call.strokes = <<Ink(<<Pt(0, 0), Pt(10, 10)>>), Ink(<<Pt(10, 10), Pt(20, 20)>>)>>
    /\ call.analysis.intersections = 1
    /\ call.result = Resolved(<<"X">>)

\* the number of places along a stroke where the triple of points around
\* one point is of another class (curve or straight) than the triple around
\* the next
ClassChanges(points) ==
    Cardinality({i \in 2..(Len(points) - 2) :
                    TripleDirection(points, i) # TripleDirection(points, i + 1)})

\* C30 (Curvature): the strokes that the analysis counts as curves are the
\* strokes of at least 5 points with more than 2 changes of class between
\* consecutive point triples; every other stroke of at least 3 points, and
\* so every one of fewer than 5 points, is counted as a straight line.
C30_CurvedStrokes ==
    (impl = "part_011" /\ ByPatterns) =>
        /\ call.analysis.curves =
              Cardinality({k \in 1..Len(Analyzed) :
                  /\ Len(Analyzed[k].points) >= 5
                  /\ ClassChanges(Analyzed[k].points) > 2})
        /\ call.analysis.straightLines =
              Cardinality({k \in 1..Len(Analyzed) :
                  /\ Len(Analyzed[k].points) >= 3
                  /\ \/ Len(Analyzed[k].points) < 5
                     \/ ClassChanges(Analyzed[k].points) <= 2})

\* a stroke of 6 points that goes right, down and right again, two steps
\* each, was counted as a curve
C30_Witness ==
    /\ impl = "part_011"
    /\ ByPatterns
    /\ Len(call.strokes) = 1
    /\ Len(call.strokes[1].points) = 6
    /\ ClassChanges(call.strokes[1].points) = 3
    /\ call.analysis.curves = 1
    /\ call.analysis.straightLines = 0

\* whether the turn from segment v1 to segment v2, the angle between the
\* two vectors, exceeds 45 degrees
TurnExceeds45(v1, v2) ==
    LET dot == v1.dx * v2.dx + v1.dy * v2.dy
        cross == v1.dx * v2.dy - v1.dy * v2.dx
    IN  ~(dot > 0 /\ cross * cross <= dot * dot)

\* the triples of consecutive points of the analyzed strokes that isCurved
\* classifies: <<k, i>> is the triple around point i of stroke k, with two
\* segments of non-zero length
ClassifiedTriples ==
    {ki \in (1..Len(Analyzed)) \X (2..MaxPoints + ClosedMinPoints) :
        LET points == Analyzed[ki[1]].points IN
        /\ Len(points) >= 5
        /\ ki[2] <= Len(points) - 1
        /\ points[ki[2] - 1] # points[ki[2]]
        /\ points[ki[2]] # points[ki[2] + 1]}

\* C31 (Turn classification): in every stroke that isCurved walks, a triple
\* of consecutive points is classified "curve" exactly when the turn
\* between its two segments exceeds 45 degrees and "straight" otherwise,
\* also when the two headings lie on either side of the +-180 degrees
\* boundary.
C31_TurnAngleClass ==
    (impl = "part_011" /\ ByPatterns) =>
        \A ki \in ClassifiedTriples :
            LET points == Analyzed[ki[1]].points
                i == ki[2]
            IN  (TripleDirection(points, i) = "curve")
                    <=> TurnExceeds45(Segment(points[i - 1], points[i]),
                                      Segment(points[i], points[i + 1]))

\* README.md, Recognition Accuracy: "The system tries recognition methods
\* in this order"
DocumentedOrder == <<"Google Vision", "AI Vision", "MyScript", "Local Patterns">>

\* the place of a method in the documented order
OrderRank(name) == CHOOSE k \in 1..Len(DocumentedOrder) : DocumentedOrder[k] = name

\* C34 (Fixed order): the methods a call tries are tried in the order
\* Google Vision, AI Vision, MyScript, Local Patterns: no method is tried
\* before one that comes earlier in that order, and when a method is
\* tried every earlier method whose credential is configured has been
\* tried before it.
C34_FixedOrder ==
    Active =>
        \A j \in 1..Len(call.invoked) :
            /\ \A i \in 1..(j - 1) :
                  OrderRank(call.invoked[i]) <= OrderRank(call.invoked[j])
            /\ \A name \in NetworkAdapters :
                  (OrderRank(name) < OrderRank(call.invoked[j])
                        /\ UsableCredential(name)) =>
                     \E i \in 1..(j - 1) : call.invoked[i] = name

\* C36 (isRecognizing reflects pending work): whenever a debounce timer is
\* pending or a recognizeHandwriting call of the hook is in flight,
\* isRecognizing is true; the completion of an older attempt does not set
\* it to false while a newer timer is pending or a newer attempt is still
\* running.
C36_RecognizingWhilePending ==
    (timers # {} \/ attempts # << >>) => isRecognizing

\* the stroke sets with ink among all the stroke sets of the model for
\* which recognizeWithPatterns of aiService.ts resolves to a text that the
\* loop does not accept
UnusablePatternInputs ==
    {s \in StrokeSets \cup PatternInputs :
        HasInk(s) /\ ~Usable(CharacterPatterns(s))}

\* C37 (Placeholder unreachable, aiService): for a stroke set with ink the
\* pattern method returns a text that is non-empty after trimming, so that
\* a call that gets to the pattern method returns its text, and no call
\* returns the placeholder message that follows the loop.
C37_NoPlaceholder ==
    /\ UnusablePatternInputs = {}
    /\ (impl = "aiService" /\ Done) =>
          /\ call.result.kind = "resolved"
          /\ call.result.text # PlaceholderMessage
          /\ Includes(call.invoked, "Local Patterns") =>
                /\ call.accepted = "Local Patterns"
                /\ Usable(call.result.text)

\* both network adapters of aiService.ts were tried and failed, and the call
\* returned what the pattern method made of two strokes
C37_Witness ==
    /\ impl = "aiService"
    /\ Done
    /\ call.invoked = <<"Google Vision", "AI Vision", "Local Patterns">>
    /\ Len(call.settled) = 2
    /\ call.strokes = <<DownStroke, LoopStroke>>
    /\ call.result = Resolved(<<"H">>)

MaxCanvasPoints == 3

\* where getEventPos finds the pointer
PointerPositions == {Pt(0, 0), Pt(0, 30)}

Tools == {"pen", "eraser"}

RECURSIVE PointCount(_)
PointCount(strokes) ==
    IF strokes = << >> THEN 0
    ELSE Len(Head(strokes).points) + PointCount(Tail(strokes))

\* the component is left with the state c, the hook and the service as
\* they are
CanvasBecomes(c) ==
    /\ customCanvas' = c
    /\ UNCHANGED <<config, serviceVars, hookVars>>

\* startDrawing: onMouseDown, onTouchStart
startDrawing(pos) ==
    /\ PointCount(customCanvas.strokes) < MaxCanvasPoints
    /\ CanvasBecomes([customCanvas EXCEPT !.isDrawing = TRUE,
                                          !.currentStroke = <<pos>>])

\* draw: onMouseMove, onTouchMove
draw(pos) ==
    /\ customCanvas.isDrawing
    /\ PointCount(customCanvas.strokes) + Len(customCanvas.currentStroke)
          < MaxCanvasPoints
    /\ CanvasBecomes([customCanvas EXCEPT !.currentStroke = Append(@, pos)])

\* const newStroke: color: tool === 'eraser' ? 'transparent' : penColor
newStroke(points, tool) ==
    [points |-> points, color |-> IF tool = "eraser" THEN EraserColor ELSE PenColor]

\* a stopDrawing that tests isDrawing only
stopDrawingWhileDrawing ==
    /\ customCanvas.isDrawing
    /\ LET updatedStrokes ==
               Append(customCanvas.strokes,
                      newStroke(customCanvas.currentStroke, customCanvas.tool))
       IN  CanvasBecomes([customCanvas EXCEPT !.strokes = updatedStrokes,
                                              !.currentStroke = << >>,
                                              !.isDrawing = FALSE,
                                              !.notified = updatedStrokes])

\* stopDrawing: onMouseUp, onMouseLeave, onTouchEnd
stopDrawing ==
    /\ customCanvas.isDrawing
    /\ Len(customCanvas.currentStroke) # 0
    /\ LET updatedStrokes ==
               Append(customCanvas.strokes,
                      newStroke(customCanvas.currentStroke, customCanvas.tool))
       IN  CanvasBecomes([customCanvas EXCEPT !.strokes = updatedStrokes,
                                              !.currentStroke = << >>,
                                              !.isDrawing = FALSE,
                                              !.notified = updatedStrokes])

\* clearCanvas: the button of the toolbar; isDrawing is left as it is
clearCanvas ==
    CanvasBecomes([customCanvas EXCEPT !.strokes = << >>,
                                       !.currentStroke = << >>,
                                       !.notified = << >>])

\* setTool: the pen and the eraser button
setTool(t) ==
    /\ t # customCanvas.tool
    /\ CanvasBecomes([customCanvas EXCEPT !.tool = t])

\* the canvas alone, beside a hook that is never called
CanvasInit ==
    /\ impl = "aiService"
    /\ googleKey = Undefined
    /\ handwritingKey = Undefined
    /\ handwritingUrl = Undefined
    /\ hook = "part_006"
    /\ call = NoCall
    /\ HookInitial

CanvasNext ==
    \/ \E pos \in PointerPositions : startDrawing(pos)
    \/ \E pos \in PointerPositions : draw(pos)
    \/ stopDrawing
    \/ clearCanvas
    \/ \E t \in Tools : setTool(t)

CanvasSpec == CanvasInit /\ [][CanvasNext]_vars

\* C33 (Stroke store): every stroke of the stroke set has at least 1
\* point; the set changes only by being emptied or by the stroke in
\* progress, which then has a point, being added after the strokes
\* completed before it; so that a stopDrawing with no stroke in progress
\* adds nothing.
C33_StrokeStore ==
    /\ [](\A i \in 1..Len(customCanvas.strokes) :
              Len(customCanvas.strokes[i].points) >= 1)
    /\ [][customCanvas.strokes' # customCanvas.strokes =>
            \/ customCanvas.strokes' = << >>
            \/ /\ customCanvas.isDrawing
               /\ customCanvas.currentStroke # << >>
               /\ customCanvas.strokes' =
                     Append(customCanvas.strokes,
                            newStroke(customCanvas.currentStroke, customCanvas.tool))]_vars

\* a stroke of one point drawn with the pen and then one of two points
\* drawn with the eraser: two strokes, in the order they were completed,
\* and no stroke in progress
C33_Witness ==
    /\ customCanvas.strokes =
          <<Ink(<<Pt(0, 30)>>), Erase(<<Pt(0, 0), Pt(0, 30)>>)>>
    /\ customCanvas.notified = customCanvas.strokes
    /\ customCanvas.currentStroke = << >>
    /\ ~customCanvas.isDrawing

====
